---- MODULE Spec2Model ----
(***************************************************************************)
(* A model of the markdown-site repository: the theme store                *)
(* (ThemeContext), the multi-provider chat action (generateResponse) and   *)
(* the image action (generateImage).                                       *)
(*                                                                         *)
(* Text is modelled as a sequence of atoms (TLA+ strings): concatenation   *)
(* is \o, the empty string is <<>>, and a search for a substring is a      *)
(* search for a run of atoms.  Texts whose characters the code inspects    *)
(* (model names, error messages) are spelled one character per atom.       *)
(***************************************************************************)
EXTENDS Integers, Sequences, FiniteSets, TLC

\* ------------------------------------------------------------------ text

\* JavaScript's undefined / null where a string is expected.
Undefined == << "\\undefined" >>

\* JavaScript truthiness of an optional string: neither undefined nor "".
Truthy(s) == s # Undefined /\ s # << >>

\* a || b on optional strings.
OrElse(a, b) == IF Truthy(a) THEN a ELSE b

\* ${s} in a template literal: interpolation prints undefined as the word.
Interp(s) == IF s = Undefined THEN << "undefined" >> ELSE s

\* The backtick character, which a TLA+ string cannot hold.
Backtick == "(backtick)"

\* String.prototype.startsWith
StartsWith(s, t) == Len(t) <= Len(s) /\ SubSeq(s, 1, Len(t)) = t

\* String.prototype.includes
Includes(s, t) == \E i \in 1..(Len(s) - Len(t) + 1) : SubSeq(s, i, i + Len(t) - 1) = t

\* Array.prototype.slice(-n)
SliceLast(s, n) == IF Len(s) <= n THEN s ELSE SubSeq(s, Len(s) - n + 1, Len(s))

\* ------------------------------------------------------------- state

VARIABLES
  htmlTheme,       \* the data-theme attribute of <html>
  lsAvailable,     \* whether localStorage can be used (else every access throws)
  lsTheme,         \* localStorage["blog-theme"]
  metaPresent,     \* whether <meta name="theme-color"> exists
  metaContent,     \* its content attribute
  defaultTheme,    \* the defaultTheme prop of ThemeProvider
  theme,           \* the React state of ThemeProvider
  tpc,             \* "unmounted", "mounted" or "crashed"
  effectPending,   \* the [theme] effect is scheduled and has not run
  lastOp,          \* the last state transition: "none", "mount", "toggle", "set"
  prevTheme,       \* the theme before the last transition
  toggleOrigin,    \* the theme before the current run of toggles
  toggleCount      \* the length of the current run of toggles

themeVars == << htmlTheme, lsAvailable, lsTheme, metaPresent, metaContent, defaultTheme,
                theme, tpc, effectPending, lastOp, prevTheme, toggleOrigin, toggleCount >>

VARIABLES
  env              \* process.env: the credentials, Undefined when not set

VARIABLES
  ipc,             \* where generateImage stands: "idle", "generate", "store", "getUrl", "save", "done"
  iargs,           \* its arguments
  iimage,          \* the decoded image: [mimeType, bytes]
  istorageId,      \* the id storage.store returned
  iurl,            \* the url storage.getUrl returned
  iresult,         \* what the invocation gave its caller
  ierror,          \* what the catch block of the current invocation caught
  icalls,          \* invocations started so far
  iapiCalls,       \* image API requests sent by the current invocation
  istores,         \* blobs written by the current invocation
  isaves,          \* metadata records written by the current invocation
  blobs,           \* the blob store: a sequence of [id, mimeType, bytes]
  imageRecords     \* the aiGeneratedImages table

imageVars == << ipc, iargs, iimage, istorageId, iurl, iresult, ierror, icalls, iapiCalls, istores,
                isaves, blobs, imageRecords >>

VARIABLES
  chats,           \* the aiChats table: chat id -> [exists, messages, pageContext]
  gpc,             \* per invocation slot, where generateResponse stands
  gargs,           \* its arguments
  gprovider,       \* the provider selected
  gchat,           \* the chat document it read
  gsystem,         \* the system prompt it built
  gatts,           \* processedAttachments
  gscrape,         \* per attachment: "skip", "noKey", "pending" or how the scrape went
  grequest,        \* the request sent to the provider
  gassistant,      \* assistantMessage
  gresult,         \* what the invocation gave its caller
  gkind,           \* how the invocation went: "notConfigured", "reply", "noText", "threw", ...
  gerror,          \* what the provider call threw
  gprev,           \* what the slot's previous invocation gave its caller
  gcalls,          \* invocations started so far, all slots together
  gsent,           \* provider requests sent by the current invocation
  gscrapes,        \* scrapes started by the current invocation
  gpersists        \* the addAssistantMessage calls of the current invocation: [chatId, content]

chatVars == << chats, gpc, gargs, gprovider, gchat, gsystem, gatts, gscrape, grequest,
               gassistant, gresult, gkind, gerror, gprev, gcalls, gsent, gscrapes, gpersists >>

VARIABLES
  mname,           \* the model argument of an invocation, Undefined when absent
  mselected,       \* selectedModel
  mprovider        \* provider, "none" before it is computed

selVars == << mname, mselected, mprovider >>

VARIABLES
  dpc,             \* DiffCodeBlock: "unmounted" or "mounted"
  dcode,           \* its code prop: the patch text
  dlanguage,       \* its language prop
  viewMode,        \* the React state viewMode
  copied,          \* the React state copied
  clipboard,       \* the text on the clipboard
  dwrites,         \* clipboard writes awaited by handleCopy
  dtimers,         \* the deadlines, in ms, of the timeouts handleCopy has set
  now,             \* the time in ms
  dlastAck,        \* when setCopied(true) last ran, -1 before
  dviewClicks,     \* clicks of the view toggle so far
  dcopyClicks      \* clicks of the copy button so far

diffVars == << dpc, dcode, dlanguage, viewMode, copied, clipboard, dwrites, dtimers, now,
               dlastAck, dviewClicks, dcopyClicks >>

vars == << themeVars, env, imageVars, chatVars, selVars, diffVars >>

\* ------------------------------------------------------- theme store

\* document.documentElement.getAttribute / localStorage.getItem yield null
\* for a missing attribute or key.
Null == "\\null"

Themes == << "dark", "light", "tan", "cloud" >>

ThemeSet == { Themes[i] : i \in 1..Len(Themes) }

themeColors == [ dark |-> "#111111", light |-> "#ffffff", tan |-> "#faf8f5", cloud |-> "#f5f5f5" ]

\* The longest run of toggles followed.
MaxToggles == 5

\* Values an attribute or a stored item can hold besides the four themes.
StrayValues == { Null, "", "sepia" }

\* Array.prototype.includes over the fixed list of valid themes.
IsValidTheme(t) == t \in ThemeSet

\* Array.prototype.indexOf on Themes, 0-based, -1 when absent.
IndexOfTheme(t) == IF \E i \in 1..Len(Themes) : Themes[i] = t
                   THEN (CHOOSE i \in 1..Len(Themes) : Themes[i] = t) - 1
                   ELSE -1

\* localStorage.getItem inside try/catch: [threw, value].
StorageRead == IF lsAvailable THEN [threw |-> FALSE, value |-> lsTheme]
               ELSE [threw |-> TRUE, value |-> Null]

\* getInitialTheme reading storage before the document attribute.
getInitialThemeStorageFirst(dflt) ==
  LET r == StorageRead IN
  IF ~r.threw /\ r.value # Null /\ r.value # "" /\ IsValidTheme(r.value)
  THEN r.value
  ELSE IF htmlTheme # Null /\ htmlTheme # "" /\ IsValidTheme(htmlTheme)
       THEN htmlTheme
       ELSE dflt

getInitialTheme(dflt) ==
  IF htmlTheme # Null /\ htmlTheme # "" /\ IsValidTheme(htmlTheme)
  THEN htmlTheme
  ELSE LET r == StorageRead IN
       IF ~r.threw /\ r.value # Null /\ r.value # "" /\ IsValidTheme(r.value)
       THEN r.value
       ELSE dflt

\* toggleTheme with the modulus one short: the last theme is never reached.
ToggleTargetShortCycle(t) == Themes[((IndexOfTheme(t) + 1) % (Len(Themes) - 1)) + 1]

\* The theme toggleTheme hands to setThemeState.
ToggleTarget(t) == Themes[((IndexOfTheme(t) + 1) % Len(Themes)) + 1]

\* updateMetaThemeColor that never touches the tag.
updateMetaThemeColorSkipped(t) == metaContent

\* The content updateMetaThemeColor leaves in the meta tag.
updateMetaThemeColor(t) == IF metaPresent THEN themeColors[t] ELSE metaContent

ThemeInit ==
  /\ htmlTheme \in ThemeSet \cup StrayValues
  /\ lsAvailable \in BOOLEAN
  /\ lsTheme \in IF lsAvailable THEN ThemeSet \cup StrayValues ELSE { Null }
  /\ metaPresent \in BOOLEAN
  /\ metaContent = IF metaPresent THEN themeColors["tan"] ELSE Null
  /\ defaultTheme \in ThemeSet
  /\ theme = Null
  /\ tpc = "unmounted"
  /\ effectPending = FALSE
  /\ lastOp = "none"
  /\ prevTheme = Null
  /\ toggleOrigin = Null
  /\ toggleCount = 0

\* The first render of ThemeProvider: useState's initialiser runs and the
\* effect is scheduled.
ThemeProvider ==
  /\ tpc = "unmounted"
  /\ theme' = getInitialTheme(defaultTheme)
  /\ tpc' = "mounted"
  /\ effectPending' = TRUE
  /\ lastOp' = "mount"
  /\ prevTheme' = Null
  /\ toggleOrigin' = getInitialTheme(defaultTheme)
  /\ toggleCount' = 0
  /\ UNCHANGED << htmlTheme, lsAvailable, lsTheme, metaPresent, metaContent, defaultTheme >>
  /\ UNCHANGED << env, imageVars, chatVars, selVars, diffVars >>

\* The effect of [theme]: the attribute, the stored item, the meta tag, in
\* that order.  localStorage.setItem is not guarded: when storage cannot be
\* used the effect throws after the attribute is set and React unmounts the
\* tree.
ApplyThemeEffect ==
  /\ tpc = "mounted"
  /\ effectPending
  /\ effectPending' = FALSE
  /\ htmlTheme' = theme
  /\ IF lsAvailable
     THEN /\ lsTheme' = theme
          /\ metaContent' = updateMetaThemeColor(theme)
          /\ tpc' = tpc
     ELSE /\ tpc' = "crashed"
          /\ UNCHANGED << lsTheme, metaContent >>
  /\ UNCHANGED << lsAvailable, metaPresent, defaultTheme, theme, lastOp, prevTheme,
                  toggleOrigin, toggleCount >>
  /\ UNCHANGED << env, imageVars, chatVars, selVars, diffVars >>

\* setThemeState(next) followed by the render it causes; a state equal to the
\* current one causes no render and no effect.  React runs a pending effect
\* before it renders again.
SetThemeState(next, op) ==
  /\ tpc = "mounted"
  /\ ~effectPending
  /\ theme' = next
  /\ effectPending' = (next # theme)
  /\ lastOp' = op
  /\ prevTheme' = theme
  /\ UNCHANGED << htmlTheme, lsAvailable, lsTheme, metaPresent, metaContent, defaultTheme,
                  tpc >>
  /\ UNCHANGED << env, imageVars, chatVars, selVars, diffVars >>

toggleTheme ==
  /\ toggleCount < MaxToggles
  /\ SetThemeState(ToggleTarget(theme), "toggle")
  /\ toggleCount' = toggleCount + 1
  /\ UNCHANGED toggleOrigin

setTheme(newTheme) ==
  /\ SetThemeState(newTheme, "set")
  /\ toggleOrigin' = newTheme
  /\ toggleCount' = 0

ThemeNext ==
  \/ ThemeProvider
  \/ ApplyThemeEffect
  \/ toggleTheme
  \/ \E t \in ThemeSet : setTheme(t)

\* ------------------------------------------------------ DiffCodeBlock

\* Clicks of the view toggle followed.
MaxViewClicks == 3

\* Clicks of the copy button followed.
MaxCopies == 2

\* Seconds of time followed.
MaxSeconds == 4

\* The delay of the timeout that clears the acknowledgement, in ms.
ACK_MS == 2000

\* Map app themes to the themeType of the diff library.
THEME_MAP == [ dark |-> "dark", light |-> "light", tan |-> "light", cloud |-> "light" ]

\* THEME_MAP[theme] || "dark", were every theme to fall to the default.
ThemeTypeAlwaysDark(t) == "dark"

\* THEME_MAP[theme] || "dark"
ThemeType(t) == IF t \in DOMAIN THEME_MAP THEN THEME_MAP[t] ELSE "dark"

\* Patch texts of several shapes: empty, prose, a unified diff, added lines
\* without headers.
Patches ==
  { << >>, << "not a diff at all" >>,
    << "--- a/x.ts\n+++ b/x.ts\n@@ -1 +1 @@\n-const a = 1;\n+const a = 2;" >>,
    << "+ an added line" >> }

\* What DiffCodeBlock returns: the copy button as labelled, and PatchDiff with
\* its props.
DiffRender ==
  [ copyTitle |-> IF copied THEN "Copied!" ELSE "Copy code",
    language |-> dlanguage,
    component |-> "PatchDiff",
    patch |-> dcode,
    themeType |-> ThemeType(theme),
    diffStyle |-> viewMode ]

DiffIdle ==
  /\ dpc = "unmounted"
  /\ dcode = Undefined
  /\ dlanguage = Null
  /\ viewMode = Null
  /\ copied = FALSE
  /\ clipboard = Undefined
  /\ dwrites = 0
  /\ dtimers = << >>
  /\ now = 0
  /\ dlastAck = -1
  /\ dviewClicks = 0
  /\ dcopyClicks = 0

\* The first render of DiffCodeBlock inside the theme provider.
DiffCodeBlock(code, language) ==
  /\ tpc = "mounted"
  /\ dpc = "unmounted"
  /\ dpc' = "mounted"
  /\ dcode' = code
  /\ dlanguage' = language
  /\ viewMode' = "unified"
  /\ copied' = FALSE
  /\ UNCHANGED << clipboard, dwrites, dtimers, now, dlastAck, dviewClicks, dcopyClicks >>
  /\ UNCHANGED << themeVars, env, imageVars, chatVars, selVars >>

\* A click of the view toggle, and the render that follows it.
ToggleView ==
  /\ dpc = "mounted"
  /\ dviewClicks < MaxViewClicks
  /\ viewMode' = IF viewMode = "split" THEN "unified" ELSE "split"
  /\ dviewClicks' = dviewClicks + 1
  /\ UNCHANGED << dpc, dcode, dlanguage, copied, clipboard, dwrites, dtimers, now, dlastAck,
                  dcopyClicks >>
  /\ UNCHANGED << themeVars, env, imageVars, chatVars, selVars >>

\* A click of the copy button: handleCopy up to its await.
handleCopy ==
  /\ dpc = "mounted"
  /\ dcopyClicks < MaxCopies
  /\ dcopyClicks' = dcopyClicks + 1
  /\ dwrites' = dwrites + 1
  /\ UNCHANGED << dpc, dcode, dlanguage, viewMode, copied, clipboard, dtimers, now, dlastAck,
                  dviewClicks >>
  /\ UNCHANGED << themeVars, env, imageVars, chatVars, selVars >>

\* navigator.clipboard.writeText resolves: handleCopy sets copied and the
\* timeout that clears it.
ClipboardResolves ==
  /\ dwrites > 0
  /\ dwrites' = dwrites - 1
  /\ clipboard' = dcode
  /\ copied' = TRUE
  /\ dtimers' = Append(dtimers, now + ACK_MS)
  /\ dlastAck' = now
  /\ UNCHANGED << dpc, dcode, dlanguage, viewMode, now, dviewClicks, dcopyClicks >>
  /\ UNCHANGED << themeVars, env, imageVars, chatVars, selVars >>

\* navigator.clipboard.writeText rejects: handleCopy ends at its await.
ClipboardRejects ==
  /\ dwrites > 0
  /\ dwrites' = dwrites - 1
  /\ UNCHANGED << dpc, dcode, dlanguage, viewMode, copied, clipboard, dtimers, now, dlastAck,
                  dviewClicks, dcopyClicks >>
  /\ UNCHANGED << themeVars, env, imageVars, chatVars, selVars >>

\* A timeout that is due runs: setCopied(false).
CopyTimeout ==
  /\ \E i \in 1..Len(dtimers) :
       /\ dtimers[i] <= now
       /\ dtimers' = SubSeq(dtimers, 1, i - 1) \o SubSeq(dtimers, i + 1, Len(dtimers))
  /\ copied' = FALSE
  /\ UNCHANGED << dpc, dcode, dlanguage, viewMode, clipboard, dwrites, now, dlastAck,
                  dviewClicks, dcopyClicks >>
  /\ UNCHANGED << themeVars, env, imageVars, chatVars, selVars >>

\* A second passes; a timeout runs when it is due, not later.
Tick ==
  /\ dpc = "mounted"
  /\ now < MaxSeconds * 1000
  /\ \A i \in 1..Len(dtimers) : dtimers[i] > now
  /\ now' = now + 1000
  /\ UNCHANGED << dpc, dcode, dlanguage, viewMode, copied, clipboard, dwrites, dtimers,
                  dlastAck, dviewClicks, dcopyClicks >>
  /\ UNCHANGED << themeVars, env, imageVars, chatVars, selVars >>

DiffNext ==
  \/ \E code \in Patches, language \in { "diff", "patch" } : DiffCodeBlock(code, language)
  \/ ToggleView
  \/ handleCopy
  \/ ClipboardResolves
  \/ ClipboardRejects
  \/ CopyTimeout
  \/ Tick

\* ------------------------------------------------- process environment

EnvNames ==
  { "ANTHROPIC_API_KEY", "OPENAI_API_KEY", "GOOGLE_AI_API_KEY", "FIRECRAWL_API_KEY",
    "CLAUDE_PROMPT_STYLE", "CLAUDE_PROMPT_COMMUNITY", "CLAUDE_PROMPT_RULES",
    "CLAUDE_SYSTEM_PROMPT" }

\* What a credential variable can hold: nothing, the empty string, a key.
EnvValues == { Undefined, << >>, << "secret-key" >> }

\* A value thrown by a call: an Error with its message, or something else.
Thrown(isErr, msg) == [ isError |-> isErr, message |-> msg ]

\* Nothing was thrown.
NoError == [ isError |-> FALSE, message |-> Undefined ]

\* error instanceof Error ? error.message : "Unknown error"
ErrorMessageOf(e) == IF e.isError THEN e.message ELSE << "Unknown error" >>

\* ------------------------------------------------------ generateImage

\* Invocations of generateImage followed.
MaxImageCalls == 2

GEMINI_IMAGE_MODEL == << "gemini-2.0-flash-exp-image-generation" >>

IMAGEN_MODEL == << "imagen-3.0-generate-002" >>

imageModelValidator == { GEMINI_IMAGE_MODEL, IMAGEN_MODEL }

aspectRatioValidator == { << "1:1" >>, << "16:9" >>, << "9:16" >>, << "4:3" >>, << "3:4" >> }

\* The arguments tried: both models, the ratio absent or given.
ImageArgs ==
  [ sessionId : { << "session-1" >> },
    prompt : { << "a lighthouse at dusk" >> },
    model : imageModelValidator,
    aspectRatio : { Undefined, << "16:9" >> } ]

NoImageArgs ==
  [ sessionId |-> Undefined, prompt |-> Undefined, model |-> Undefined, aspectRatio |-> Undefined ]

NoImage == [ mimeType |-> Undefined, bytes |-> << >> ]

\* ---- base64

B64Alphabet ==
  << "A","B","C","D","E","F","G","H","I","J","K","L","M","N","O","P","Q","R","S","T","U","V","W","X","Y","Z",
     "a","b","c","d","e","f","g","h","i","j","k","l","m","n","o","p","q","r","s","t","u","v","w","x","y","z",
     "0","1","2","3","4","5","6","7","8","9","+","/" >>

B64Index(c) == (CHOOSE i \in 1..Len(B64Alphabet) : B64Alphabet[i] = c) - 1

IsB64Char(c) == \E i \in 1..Len(B64Alphabet) : B64Alphabet[i] = c

\* The data without its trailing padding.
RECURSIVE StripPadding(_)
StripPadding(d) ==
  IF Len(d) > 0 /\ d[Len(d)] = "=" THEN StripPadding(SubSeq(d, 1, Len(d) - 1)) ELSE d

\* atob accepts the data when, padding removed, every character is of the
\* alphabet and the length is not 1 modulo 4 (at most two padding characters).
AtobAccepts(d) ==
  LET body == StripPadding(d) IN
  /\ Len(d) - Len(body) <= 2
  /\ (Len(d) # Len(body) => Len(d) % 4 = 0)
  /\ Len(body) % 4 # 1
  /\ \A i \in 1..Len(body) : IsB64Char(body[i])

\* The bytes of one group of 2, 3 or 4 characters.
B64Group(g) ==
  LET v(i) == IF i <= Len(g) THEN B64Index(g[i]) ELSE 0
      n == v(1) * 262144 + v(2) * 4096 + v(3) * 64 + v(4)
      all == << n \div 65536, (n \div 256) % 256, n % 256 >>
  IN SubSeq(all, 1, Len(g) - 1)

RECURSIVE B64Decode(_)
B64Decode(body) ==
  IF Len(body) = 0 THEN << >>
  ELSE IF Len(body) <= 4 THEN B64Group(body)
  ELSE B64Group(SubSeq(body, 1, 4)) \o B64Decode(SubSeq(body, 5, Len(body)))

\* base64ToBytes: atob, then one byte per character; atob throws on data it
\* does not accept.
base64ToBytes(d) ==
  IF AtobAccepts(d)
  THEN [ threw |-> FALSE, bytes |-> B64Decode(StripPadding(d)) ]
  ELSE [ threw |-> TRUE,
         error |-> Thrown(TRUE, << "The string to be decoded is not correctly encoded." >>) ]

\* ---- what the image API can answer

B64_Man == << "T", "W", "F", "u" >>

B64_Ma == << "T", "W", "E", "=" >>

B64_Bad == << "T", "!", "F", "u" >>

\* A part of a response: text, or inline data (present = FALSE when the part
\* has none).
TextPart ==
  [ text |-> << "Here is your image" >>,
    inlineData |-> [ present |-> FALSE, mimeType |-> Undefined, data |-> Undefined ] ]

InlinePart(mime, data) ==
  [ text |-> Undefined, inlineData |-> [ present |-> TRUE, mimeType |-> mime, data |-> data ] ]

\* Responses of generateContent: the parts of the first candidate (none when
\* there is no candidate).
GeminiImageResponses ==
  { << >>,
    << TextPart >>,
    << TextPart, InlinePart(<< "image/", "png" >>, B64_Man) >>,
    << InlinePart(<< "application/", "pdf" >>, B64_Man), InlinePart(<< "image/", "jpeg" >>, B64_Ma) >>,
    << InlinePart(<< "image/", "png" >>, << >>) >>,
    << InlinePart(Undefined, B64_Man) >>,
    << InlinePart(<< "image/", "png" >>, B64_Bad) >> }

\* Responses of generateImages: the imageBytes of each generated image
\* (Undefined when the image carries none).
ImagenResponses ==
  { << >>, << Undefined >>, << B64_Man >>, << B64_Ma, B64_Man >>, << B64_Bad >> }

ERR_QUOTA == << "q", "u", "o", "t", "a", " ", "e", "x", "c", "e", "e", "d", "e", "d" >>

ERR_RATE == << "r", "a", "t", "e", " ", "l", "i", "m", "i", "t" >>

ERR_SAFETY == << "s", "a", "f", "e", "t", "y", " ", "f", "i", "l", "t", "e", "r" >>

ERR_BLOCKED == << "p", "r", "o", "m", "p", "t", " ", "b", "l", "o", "c", "k", "e", "d" >>

ERR_TIMEOUT == << "s", "o", "c", "k", "e", "t", " ", "h", "a", "n", "g", " ", "u", "p" >>

\* The image API's answer for a model it does not serve.
ERR_NOT_FOUND ==
  << "models/imagen-3.0-", "g", "e", "n", "e", "r", "a", "t", "e", "-002 is not found for API version v1beta" >>

\* What a failing call can throw.
ThrownValues ==
  { Thrown(TRUE, ERR_QUOTA), Thrown(TRUE, ERR_RATE), Thrown(TRUE, ERR_SAFETY),
    Thrown(TRUE, ERR_BLOCKED), Thrown(TRUE, ERR_TIMEOUT), Thrown(TRUE, ERR_NOT_FOUND),
    Thrown(TRUE, << >>), Thrown(FALSE, << >>) }

\* What storage and the database throw when they fail.
BackendThrown == { Thrown(TRUE, ERR_TIMEOUT), Thrown(FALSE, << >>) }

\* ---- results

IMAGE_NOT_CONFIGURED ==
  << "**Gemini Image Generation is ", "not configured", ".**\n\n",
     "To use image generation, add your ", Backtick, "GOOGLE_AI_API_KEY", Backtick,
     " to the Convex environment variables.\n\n",
     "**Setup steps:**\n",
     "1. Get an API key from [Google AI Studio](https://aistudio.google.com/apikey)\n",
     "2. Add it to Convex: ", Backtick, "npx convex env set ", "GOOGLE_AI_API_KEY",
     " your-key-here", Backtick, "\n",
     "3. For production, set it in the [Convex Dashboard](https://dashboard.convex.dev/)\n\n",
     "See the [Convex environment variables docs](https://docs.convex.dev/production/environment-variables) for more details." >>

NO_IMAGE_GENERATED == << "No image was generated. Try a different prompt." >>

RATE_LIMIT_MESSAGE == << "**Rate limit exceeded.** Please try again in a few moments." >>

BLOCKED_MESSAGE ==
  << "**Image generation blocked.** The prompt may have triggered content safety filters. Try rephrasing your prompt." >>

\* A result handed to the caller (raised = FALSE), or an exception leaving
\* the handler (raised = TRUE).
ImageFailure(msg) ==
  [ raised |-> FALSE, success |-> FALSE, storageId |-> Undefined, url |-> Undefined, error |-> msg ]

ImageSuccess(id, url) ==
  [ raised |-> FALSE, success |-> TRUE, storageId |-> id, url |-> OrElse(url, Undefined),
    error |-> Undefined ]

ImageRaised(e) ==
  [ raised |-> TRUE, success |-> FALSE, storageId |-> Undefined, url |-> Undefined,
    error |-> ErrorMessageOf(e) ]

NoImageResult == ImageFailure(Undefined)

\* A catch block that handles Error objects only and rethrows the rest.
CatchImageErrorRethrowing(e) ==
  IF ~e.isError THEN ImageRaised(e)
  ELSE ImageFailure(<< "**Image generation failed:** " >> \o e.message)

\* The catch block of generateImage.
CatchImageError(e) ==
  LET errorMessage == ErrorMessageOf(e) IN
  IF Includes(errorMessage, << "q", "u", "o", "t", "a" >>) \/ Includes(errorMessage, << "r", "a", "t", "e" >>)
  THEN ImageFailure(RATE_LIMIT_MESSAGE)
  ELSE IF Includes(errorMessage, << "s", "a", "f", "e", "t", "y" >>) \/ Includes(errorMessage, << "b", "l", "o", "c", "k", "e", "d" >>)
  THEN ImageFailure(BLOCKED_MESSAGE)
  ELSE ImageFailure(<< "**Image generation failed:** " >> \o errorMessage)

\* parts.find(part => part.inlineData?.mimeType?.startsWith("image/")):
\* the index of the first such part, 0 when there is none.
FindImagePart(parts) ==
  LET hits == { i \in 1..Len(parts) :
                  /\ parts[i].inlineData.present
                  /\ parts[i].inlineData.mimeType # Undefined
                  /\ StartsWith(parts[i].inlineData.mimeType, << "image/" >>) }
  IN IF hits = { } THEN 0 ELSE CHOOSE i \in hits : \A j \in hits : i <= j

\* What the Gemini branch extracts from a response: nothing, a thrown
\* decoding error, or the image.
ExtractGeminiImage(parts) ==
  LET k == FindImagePart(parts) IN
  IF k = 0 \/ ~Truthy(parts[k].inlineData.mimeType) \/ ~Truthy(parts[k].inlineData.data)
  THEN [ kind |-> "none" ]
  ELSE LET dec == base64ToBytes(parts[k].inlineData.data) IN
       IF dec.threw THEN [ kind |-> "throw", error |-> dec.error ]
       ELSE [ kind |-> "image", mimeType |-> parts[k].inlineData.mimeType, bytes |-> dec.bytes ]

\* What the Imagen branch extracts from a response.
ExtractImagenImage(images) ==
  IF Len(images) = 0 \/ ~Truthy(images[1])
  THEN [ kind |-> "none" ]
  ELSE LET dec == base64ToBytes(images[1]) IN
       IF dec.threw THEN [ kind |-> "throw", error |-> dec.error ]
       ELSE [ kind |-> "image", mimeType |-> << "image/", "png" >>, bytes |-> dec.bytes ]

\* The id storage.store gives the n-th blob.
StorageIdOf(n) == << "storage-", ToString(n) >>

StorageUrlOf(id) == << "https://files.convex.cloud/" >> \o id

ImageIdle ==
  /\ ipc = "idle"
  /\ iargs = NoImageArgs
  /\ iimage = NoImage
  /\ istorageId = Undefined
  /\ iurl = Undefined
  /\ iresult = NoImageResult
  /\ ierror = NoError
  /\ icalls = 0
  /\ iapiCalls = 0
  /\ istores = 0
  /\ isaves = 0
  /\ blobs = << >>
  /\ imageRecords = << >>

\* The invocation ends with result r.
ImageReturn(r) ==
  /\ ipc' = "done"
  /\ iresult' = r

\* The catch block is entered with e and the invocation ends with what it
\* returns.
ImageCatch(e) ==
  /\ ierror' = e
  /\ ImageReturn(CatchImageError(e))

\* generateImage running without looking for its credential.
ImageApiKeyAssumed == << "assumed-key" >>

\* const apiKey = process.env.GOOGLE_AI_API_KEY
ImageApiKey == env["GOOGLE_AI_API_KEY"]

\* The handler is entered: the credential check, then the request to the
\* image API is sent.
generateImage(args) ==
  /\ ipc \in { "idle", "done" }
  /\ icalls < MaxImageCalls
  /\ icalls' = icalls + 1
  /\ iargs' = args
  /\ iimage' = NoImage
  /\ istorageId' = Undefined
  /\ iurl' = Undefined
  /\ ierror' = NoError
  /\ istores' = 0
  /\ isaves' = 0
  /\ IF ~Truthy(ImageApiKey)
     THEN /\ ImageReturn(ImageFailure(IMAGE_NOT_CONFIGURED))
          /\ iapiCalls' = 0
     ELSE /\ ipc' = "generate"
          /\ iresult' = NoImageResult
          /\ iapiCalls' = 1
  /\ UNCHANGED << themeVars, chatVars, selVars, diffVars, env, blobs, imageRecords >>

\* The image API answers with a response.
ImageApiResponds ==
  /\ ipc = "generate"
  /\ \E resp \in IF iargs.model = GEMINI_IMAGE_MODEL THEN GeminiImageResponses ELSE ImagenResponses :
       LET got == IF iargs.model = GEMINI_IMAGE_MODEL
                  THEN ExtractGeminiImage(resp) ELSE ExtractImagenImage(resp)
       IN \/ /\ got.kind = "none"
             /\ ImageReturn(ImageFailure(NO_IMAGE_GENERATED))
             /\ UNCHANGED << iimage, ierror >>
          \/ /\ got.kind = "throw"
             /\ ImageCatch(got.error)
             /\ UNCHANGED iimage
          \/ /\ got.kind = "image"
             /\ iimage' = [ mimeType |-> got.mimeType, bytes |-> got.bytes ]
             /\ ipc' = "store"
             /\ UNCHANGED << iresult, ierror >>
  /\ UNCHANGED << themeVars, chatVars, selVars, diffVars, env, iargs, istorageId, iurl, icalls, iapiCalls, istores, isaves, blobs,
                  imageRecords >>

\* The image API call throws.
ImageApiThrows ==
  /\ ipc = "generate"
  /\ \E e \in ThrownValues : ImageCatch(e)
  /\ UNCHANGED << themeVars, chatVars, selVars, diffVars, env, iargs, iimage, istorageId, iurl, icalls, iapiCalls, istores, isaves,
                  blobs, imageRecords >>

\* ctx.storage.store(blob)
StorageStore ==
  /\ ipc = "store"
  /\ \/ /\ istorageId' = StorageIdOf(Len(blobs) + 1)
        /\ blobs' = Append(blobs, [ id |-> StorageIdOf(Len(blobs) + 1),
                                    mimeType |-> iimage.mimeType, bytes |-> iimage.bytes ])
        /\ istores' = istores + 1
        /\ ipc' = "getUrl"
        /\ UNCHANGED << iresult, ierror >>
     \/ /\ \E e \in BackendThrown : ImageCatch(e)
        /\ UNCHANGED << istorageId, blobs, istores >>
  /\ UNCHANGED << themeVars, chatVars, selVars, diffVars, env, iargs, iimage, iurl, icalls, iapiCalls, isaves, imageRecords >>

\* ctx.storage.getUrl(storageId): the url, null, or a throw.
StorageGetUrl ==
  /\ ipc = "getUrl"
  /\ \/ /\ \E u \in { StorageUrlOf(istorageId), Undefined } : iurl' = u
        /\ ipc' = "save"
        /\ UNCHANGED << iresult, ierror >>
     \/ /\ \E e \in BackendThrown : ImageCatch(e)
        /\ UNCHANGED iurl
  /\ UNCHANGED << themeVars, chatVars, selVars, diffVars, env, iargs, iimage, istorageId, icalls, iapiCalls, istores, isaves, blobs,
                  imageRecords >>

\* ctx.runMutation(saveGeneratedImage), then the success result.
SaveGeneratedImage ==
  /\ ipc = "save"
  /\ \/ /\ imageRecords' = Append(imageRecords,
              [ sessionId |-> iargs.sessionId, prompt |-> iargs.prompt, model |-> iargs.model,
                storageId |-> istorageId, mimeType |-> iimage.mimeType ])
        /\ isaves' = isaves + 1
        /\ ImageReturn(ImageSuccess(istorageId, iurl))
        /\ UNCHANGED ierror
     \/ /\ \E e \in BackendThrown : ImageCatch(e)
        /\ UNCHANGED << imageRecords, isaves >>
  /\ UNCHANGED << themeVars, chatVars, selVars, diffVars, env, iargs, iimage, istorageId, iurl, icalls, iapiCalls, istores, blobs >>

ImageNext ==
  \/ \E args \in ImageArgs : generateImage(args)
  \/ ImageApiResponds
  \/ ImageApiThrows
  \/ StorageStore
  \/ StorageGetUrl
  \/ SaveGeneratedImage

\* ---------------------------------------------------- generateResponse

\* ---- models, providers, credentials

CLAUDE_MODEL == << "c", "l", "a", "u", "d", "e", "-", "s", "o", "n", "n", "e", "t", "-", "4", "-", "2", "0", "2", "5", "0", "5", "1", "4" >>

GPT_MODEL == << "g", "p", "t", "-", "4", "o" >>

GEMINI_MODEL == << "g", "e", "m", "i", "n", "i", "-", "2", ".", "0", "-", "f", "l", "a", "s", "h" >>

modelValidator == { CLAUDE_MODEL, GPT_MODEL, GEMINI_MODEL }

Providers == { "anthropic", "openai", "google" }

\* getProviderFromModel testing for the word anywhere in the name.
getProviderFromModelAnywhere(model) ==
  IF Includes(model, << "c", "l", "a", "u", "d", "e" >>) THEN "anthropic"
  ELSE IF Includes(model, << "g", "p", "t" >>) THEN "openai"
  ELSE IF Includes(model, << "g", "e", "m", "i", "n", "i" >>) THEN "google"
  ELSE "anthropic"

getProviderFromModel(model) ==
  IF StartsWith(model, << "c", "l", "a", "u", "d", "e" >>) THEN "anthropic"
  ELSE IF StartsWith(model, << "g", "p", "t" >>) THEN "openai"
  ELSE IF StartsWith(model, << "g", "e", "m", "i", "n", "i" >>) THEN "google"
  ELSE "anthropic"

\* args.model || "claude-sonnet-4-20250514"
SelectedModel(model) == OrElse(model, CLAUDE_MODEL)

ProviderEnvVar == [ anthropic |-> "ANTHROPIC_API_KEY", openai |-> "OPENAI_API_KEY",
                    google |-> "GOOGLE_AI_API_KEY" ]

\* getApiKeyForProvider reading the Anthropic key whatever the provider.
getApiKeyForProviderAnthropicOnly(provider) == OrElse(env["ANTHROPIC_API_KEY"], Undefined)

\* getApiKeyForProvider falling back on any provider's key.
getApiKeyForProviderAnyKey(provider) ==
  OrElse(env[ProviderEnvVar[provider]],
         OrElse(env["ANTHROPIC_API_KEY"],
                OrElse(env["OPENAI_API_KEY"], OrElse(env["GOOGLE_AI_API_KEY"], Undefined))))

\* process.env.<KEY> || null
getApiKeyForProvider(provider) == OrElse(env[ProviderEnvVar[provider]], Undefined)

NotConfiguredConfigs ==
  [ anthropic |-> [ name |-> "Claude (Anthropic)", envVar |-> "ANTHROPIC_API_KEY",
                    consoleUrl |-> "https://console.anthropic.com/",
                    consoleName |-> "Anthropic Console" ],
    openai |-> [ name |-> "GPT (OpenAI)", envVar |-> "OPENAI_API_KEY",
                 consoleUrl |-> "https://platform.openai.com/api-keys",
                 consoleName |-> "OpenAI Platform" ],
    google |-> [ name |-> "Gemini (Google)", envVar |-> "GOOGLE_AI_API_KEY",
                 consoleUrl |-> "https://aistudio.google.com/apikey",
                 consoleName |-> "Google AI Studio" ] ]

NotConfiguredText(config) ==
  << "**", config.name, " is not configured.**\n\n",
     "To enable this model, add your ", Backtick, config.envVar, Backtick,
     " to the Convex environment variables.\n\n",
     "**Setup steps:**\n",
     "1. Get an API key from [", config.consoleName, "](", config.consoleUrl, ")\n",
     "2. Add it to Convex: ", Backtick, "npx convex env set ", config.envVar, " your-key-here",
     Backtick, "\n",
     "3. For production, set it in the [Convex Dashboard](https://dashboard.convex.dev/)\n\n",
     "See the [Convex environment variables docs](https://docs.convex.dev/production/environment-variables) for more details." >>

getNotConfiguredMessage(provider) == NotConfiguredText(NotConfiguredConfigs[provider])

\* ---- system prompt

DEFAULT_SYSTEM_PROMPT ==
  << "You are a helpful writing assistant. Help users write clearly and concisely.\n\nAlways apply the rule of one:\nFocus on one person.\nAddress one specific problem they are facing.\nIdentify the single root cause of that problem.\nExplain the one thing the solution does differently.\nEnd by asking for one clear action.\n\nFollow these guidelines:\nWrite in a clear and direct style.\nAvoid jargon and unnecessary complexity.\nUse short sentences and short paragraphs.\nBe concise but thorough.\nDo not use em dashes.\nFormat responses in markdown when appropriate." >>

IsWhitespace(a) == a \in { " ", "\n", "\t", "\r" }

\* String.prototype.trim
RECURSIVE Trim(_)
Trim(s) ==
  IF Len(s) = 0 THEN s
  ELSE IF IsWhitespace(s[1]) THEN Trim(Tail(s))
  ELSE IF IsWhitespace(s[Len(s)]) THEN Trim(SubSeq(s, 1, Len(s) - 1))
  ELSE s

\* Array.prototype.join
RECURSIVE Join(_, _)
Join(parts, sep) ==
  IF Len(parts) = 0 THEN << >>
  ELSE IF Len(parts) = 1 THEN parts[1]
  ELSE parts[1] \o sep \o Join(Tail(parts), sep)

\* buildSystemPrompt trying the single prompt before the split ones.
buildSystemPromptWholeFirst ==
  LET NonBlank(p) == Truthy(Trim(p))
      parts == SelectSeq(<< OrElse(env["CLAUDE_PROMPT_STYLE"], << >>),
                            OrElse(env["CLAUDE_PROMPT_COMMUNITY"], << >>),
                            OrElse(env["CLAUDE_PROMPT_RULES"], << >>) >>, NonBlank)
  IN IF Truthy(env["CLAUDE_SYSTEM_PROMPT"]) THEN env["CLAUDE_SYSTEM_PROMPT"]
     ELSE IF Len(parts) > 0 THEN Join(parts, << "\n\n---\n\n" >>)
     ELSE DEFAULT_SYSTEM_PROMPT

buildSystemPrompt ==
  LET part1 == OrElse(env["CLAUDE_PROMPT_STYLE"], << >>)
      part2 == OrElse(env["CLAUDE_PROMPT_COMMUNITY"], << >>)
      part3 == OrElse(env["CLAUDE_PROMPT_RULES"], << >>)
      NonBlank(p) == Truthy(Trim(p))
      parts == SelectSeq(<< part1, part2, part3 >>, NonBlank)
  IN IF Len(parts) > 0 THEN Join(parts, << "\n\n---\n\n" >>)
     ELSE OrElse(env["CLAUDE_SYSTEM_PROMPT"], DEFAULT_SYSTEM_PROMPT)

PAGE_CONTEXT_INTRO ==
  << "\n\n---\n\nThe user is viewing a page with the following content. Use this as context for your responses:\n\n" >>

\* The system prompt of a call: buildSystemPrompt, then the page context when
\* there is one (the argument before the chat's own).
SystemPromptFor(argContext, chatContext) ==
  LET pageContent == OrElse(argContext, chatContext) IN
  IF Truthy(pageContent) THEN buildSystemPrompt \o PAGE_CONTEXT_INTRO \o pageContent
  ELSE buildSystemPrompt

\* ---- messages, attachments, content blocks

Attachment(type, storageId, url, scrapedContent, title) ==
  [ type |-> type, storageId |-> storageId, url |-> url, scrapedContent |-> scrapedContent,
    title |-> title ]

ImageAttachment(storageId) == Attachment("image", storageId, Undefined, Undefined, Undefined)

LinkAttachment(url, scrapedContent) == Attachment("link", Undefined, url, scrapedContent, Undefined)

ChatMessage(role, content, attachments) ==
  [ role |-> role, content |-> content, attachments |-> attachments ]

TextBlock(text) == [ type |-> "text", text |-> text, url |-> Undefined ]

\* An image block whose source is { type: "url", url }.
ImageBlock(url) == [ type |-> "image", text |-> Undefined, url |-> url ]

\* The content of a formatted message: a string, or an array of blocks.
StringContent(text) == [ isString |-> TRUE, text |-> text, blocks |-> << >> ]

BlockContent(blocks) == [ isString |-> FALSE, text |-> << >>, blocks |-> blocks ]

\* parts.length === 1 && parts[0].type === "text" ? parts[0].text : parts
Collapse(parts) ==
  IF Len(parts) = 1 /\ parts[1].type = "text" THEN StringContent(parts[1].text)
  ELSE BlockContent(parts)

IMG_OK == << "storage-img-ok" >>

IMG_GONE == << "storage-img-gone" >>

IMG_ERR == << "storage-img-err" >>

\* getStorageUrlInternal: the url of a stored file, null for a file that no
\* longer exists, a throw when the lookup fails.
GetStorageUrl(storageId) ==
  IF storageId = IMG_ERR
  THEN [ threw |-> TRUE, url |-> Undefined ]
  ELSE IF storageId = IMG_GONE
  THEN [ threw |-> FALSE, url |-> Undefined ]
  ELSE [ threw |-> FALSE, url |-> << "https://files.convex.cloud/" >> \o storageId ]

\* The text a link attachment contributes.
LinkText(attachment) ==
  LET linkText == OrElse(attachment.url, << >>) IN
  IF Truthy(attachment.scrapedContent)
  THEN linkText \o << "\n\nContent from " >> \o Interp(attachment.url) \o << ":\n" >>
                \o attachment.scrapedContent
  ELSE linkText

\* The blocks one attachment contributes: [threw, parts].
AttachmentParts(attachment) ==
  IF attachment.type = "image" /\ Truthy(attachment.storageId)
  THEN LET imageUrl == GetStorageUrl(attachment.storageId) IN
       IF imageUrl.threw THEN [ threw |-> TRUE, parts |-> << >> ]
       ELSE IF Truthy(imageUrl.url)
       THEN [ threw |-> FALSE, parts |-> << ImageBlock(imageUrl.url) >> ]
       ELSE [ threw |-> FALSE, parts |-> << >> ]
  ELSE IF attachment.type = "link" /\ Truthy(LinkText(attachment))
  THEN [ threw |-> FALSE, parts |-> << TextBlock(LinkText(attachment)) >> ]
  ELSE [ threw |-> FALSE, parts |-> << >> ]

RECURSIVE AttachmentsParts(_)
AttachmentsParts(attachments) ==
  IF Len(attachments) = 0 THEN [ threw |-> FALSE, parts |-> << >> ]
  ELSE LET first == AttachmentParts(attachments[1]) IN
       IF first.threw THEN first
       ELSE LET rest == AttachmentsParts(Tail(attachments)) IN
            [ threw |-> rest.threw, parts |-> first.parts \o rest.parts ]

\* A user turn: its text when there is any, then its attachments.
UserParts(text, attachments) ==
  LET rest == AttachmentsParts(attachments) IN
  [ threw |-> rest.threw,
    parts |-> (IF Truthy(text) THEN << TextBlock(text) >> ELSE << >>) \o rest.parts ]

Formatted(role, content) == [ role |-> role, content |-> content ]

\* One message of the history in the provider-agnostic format.
FormatHistoryMessage(msg) ==
  IF msg.role = "assistant"
  THEN [ threw |-> FALSE, message |-> Formatted("assistant", StringContent(msg.content)) ]
  ELSE LET p == UserParts(msg.content, msg.attachments) IN
       [ threw |-> p.threw, message |-> Formatted("user", Collapse(p.parts)) ]

RECURSIVE FormatMessages(_)
FormatMessages(msgs) ==
  IF Len(msgs) = 0 THEN [ threw |-> FALSE, messages |-> << >> ]
  ELSE LET first == FormatHistoryMessage(msgs[1]) IN
       IF first.threw THEN [ threw |-> TRUE, messages |-> << >> ]
       ELSE LET rest == FormatMessages(Tail(msgs)) IN
            [ threw |-> rest.threw, messages |-> << first.message >> \o rest.messages ]

HISTORY_WINDOW == 20

\* chat.messages.slice(-20) kept whole.
RecentMessagesUnbounded(messages) == messages

\* chat.messages.slice(-20)
RecentMessages(messages) == SliceLast(messages, HISTORY_WINDOW)

\* formattedMessages: the recent history, then the new user message.
FormattedMessages(history, userMessage, processedAttachments) ==
  LET old == FormatMessages(RecentMessages(history))
      new == UserParts(userMessage, processedAttachments)
  IN [ threw |-> old.threw \/ new.threw,
       messages |-> old.messages \o << Formatted("user", Collapse(new.parts)) >> ]

\* ---- the three wire formats

MAX_TOKENS == 2048

ProviderRequest(provider, model, system, messages) ==
  [ provider |-> provider, model |-> model, maxTokens |-> MAX_TOKENS, system |-> system,
    messages |-> messages ]

NoRequest ==
  [ provider |-> "none", model |-> Undefined, maxTokens |-> 0, system |-> << >>,
    messages |-> << >> ]

\* anthropic.messages.create takes the formatted messages as they are.
AnthropicMessages(messages) == messages

\* One content block in OpenAI's format, were image blocks dropped as for
\* Gemini.
OpenAIPartTextOnly(block) ==
  IF block.type = "text" THEN << [ type |-> "text", text |-> block.text, url |-> Undefined ] >>
  ELSE << >>

\* One content block in OpenAI's format; blocks of other kinds are dropped.
OpenAIPart(block) ==
  IF block.type = "text" THEN << [ type |-> "text", text |-> block.text, url |-> Undefined ] >>
  ELSE IF block.type = "image" THEN << [ type |-> "image_url", text |-> Undefined, url |-> block.url ] >>
  ELSE << >>

RECURSIVE OpenAIParts(_)
OpenAIParts(blocks) ==
  IF Len(blocks) = 0 THEN << >> ELSE OpenAIPart(blocks[1]) \o OpenAIParts(Tail(blocks))

RECURSIVE TextsOf(_)
TextsOf(parts) ==
  IF Len(parts) = 0 THEN << >>
  ELSE (IF parts[1].type = "text" THEN << parts[1].text >> ELSE << >>) \o TextsOf(Tail(parts))

OpenAIMessage(msg) ==
  IF msg.content.isString THEN msg
  ELSE LET content == OpenAIParts(msg.content.blocks) IN
       IF msg.role = "user" THEN Formatted("user", Collapse(content))
       ELSE Formatted("assistant", StringContent(Join(TextsOf(content), << "\n" >>)))

\* openaiMessages: the system prompt first, then one message per formatted
\* message.
OpenAIMessages(system, messages) ==
  << Formatted("system", StringContent(system)) >>
    \o [ i \in 1..Len(messages) |-> OpenAIMessage(messages[i]) ]

RECURSIVE GeminiParts(_)
GeminiParts(blocks) ==
  IF Len(blocks) = 0 THEN << >>
  ELSE (IF blocks[1].type = "text" THEN << TextBlock(blocks[1].text) >> ELSE << >>)
         \o GeminiParts(Tail(blocks))

\* The Gemini content of one formatted message: none when no part is left.
GeminiMessage(msg) ==
  LET role == IF msg.role = "assistant" THEN "model" ELSE "user" IN
  IF msg.content.isString
  THEN << Formatted(role, BlockContent(<< TextBlock(msg.content.text) >>)) >>
  ELSE LET parts == GeminiParts(msg.content.blocks) IN
       IF Len(parts) > 0 THEN << Formatted(role, BlockContent(parts)) >> ELSE << >>

RECURSIVE GeminiMessages(_)
GeminiMessages(messages) ==
  IF Len(messages) = 0 THEN << >>
  ELSE GeminiMessage(messages[1]) \o GeminiMessages(Tail(messages))

\* The request the selected provider's client is given.
RequestFor(provider, model, system, messages) ==
  IF provider = "anthropic"
  THEN ProviderRequest(provider, model, system, AnthropicMessages(messages))
  ELSE IF provider = "openai"
  THEN ProviderRequest(provider, model, system, OpenAIMessages(system, messages))
  ELSE ProviderRequest(provider, model, system, GeminiMessages(messages))

\* ---- what a provider can answer

\* A response is the list the reply is searched in: Anthropic's content
\* blocks, OpenAI's choices, the parts of Gemini's first candidate.
Piece(type, text) == [ type |-> type, text |-> text ]

REPLY_TEXT == << "Here is a tighter version of your paragraph." >>

ProviderResponses ==
  { << >>,
    << Piece("text", REPLY_TEXT) >>,
    << Piece("tool_use", Undefined), Piece("text", REPLY_TEXT) >>,
    << Piece("text", << >>) >> }

ERR_OVERLOADED == << "529 ", "overloaded_error" >>

\* What a provider call throws: an Error with a message, an Error without
\* one, a value that is not an Error.
ProviderThrown ==
  { Thrown(TRUE, ERR_OVERLOADED), Thrown(TRUE, << >>), Thrown(FALSE, << "socket hang up" >>) }

Answered(text) == [ threw |-> FALSE, text |-> text, error |-> Thrown(TRUE, << >>) ]

Failed(e) == [ threw |-> TRUE, text |-> << >>, error |-> e ]

\* response.content.find(block => block.type === "text")
ParseAnthropic(resp) ==
  LET IsText(b) == b.type = "text"
      found == SelectSeq(resp, IsText)
  IN IF Len(found) = 0 THEN Failed(Thrown(TRUE, << "No text content in Claude response" >>))
     ELSE Answered(found[1].text)

\* response.choices[0]?.message?.content
ParseOpenAI(resp) ==
  IF Len(resp) = 0 \/ ~Truthy(resp[1].text)
  THEN Failed(Thrown(TRUE, << "No text content in OpenAI response" >>))
  ELSE Answered(resp[1].text)

\* response.candidates?.[0]?.content?.parts?.find(part => part.text)
ParseGemini(resp) ==
  LET IsTextPart(b) == Truthy(b.text)
      found == SelectSeq(resp, IsTextPart)
  IN IF Len(found) = 0 THEN Failed(Thrown(TRUE, << "No text content in Gemini response" >>))
     ELSE Answered(found[1].text)

ParseResponse(provider, resp) ==
  IF provider = "anthropic" THEN ParseAnthropic(resp)
  ELSE IF provider = "openai" THEN ParseOpenAI(resp)
  ELSE ParseGemini(resp)

\* The catch block of generateResponse letting the failure out.
ErrorAssistantMessageBare(provider, e) == ErrorMessageOf(e)

\* The catch block of generateResponse.
ErrorAssistantMessage(provider, e) ==
  << "**Error from ", provider, ":**", " " >> \o ErrorMessageOf(e)

\* ---- link scraping

ScrapeResponse(threw, success, markdown, title) ==
  [ threw |-> threw, success |-> success, markdown |-> markdown, title |-> title ]

ScrapeResponses ==
  { ScrapeResponse(FALSE, TRUE, << "# Scraped page" >>, << "Scraped title" >>),
    ScrapeResponse(FALSE, TRUE, << "# Scraped page" >>, Undefined),
    ScrapeResponse(FALSE, TRUE, << >>, << "Scraped title" >>),
    ScrapeResponse(FALSE, FALSE, Undefined, Undefined),
    ScrapeResponse(TRUE, FALSE, Undefined, Undefined) }

NoScrape == [ ok |-> FALSE, content |-> Undefined, title |-> Undefined ]

\* How a scrape went: "threw", "unsuccessful", "noMarkdown" or "scraped".
ScrapeOutcome(resp) ==
  IF resp.threw THEN "threw"
  ELSE IF ~resp.success THEN "unsuccessful"
  ELSE IF ~Truthy(resp.markdown) THEN "noMarkdown"
  ELSE "scraped"

\* scrapeUrl taking whatever Firecrawl answered for the page.
ScrapeResultUnchecked(resp) ==
  IF resp.threw THEN [ ok |-> FALSE, content |-> Undefined, title |-> Undefined ]
  ELSE [ ok |-> TRUE, content |-> Interp(resp.markdown), title |-> resp.title ]

\* scrapeUrl once Firecrawl has answered: null unless markdown came back.
ScrapeResult(resp) ==
  IF resp.threw \/ ~resp.success \/ ~Truthy(resp.markdown) THEN NoScrape
  ELSE [ ok |-> TRUE, content |-> resp.markdown, title |-> resp.title ]

\* The condition under which the map callback scrapes, were links that carry
\* scraped content scraped again.
NeedsScrapeAnyLink(attachment) ==
  attachment.type = "link" /\ Truthy(attachment.url)

NeedsScrape(attachment) ==
  attachment.type = "link" /\ Truthy(attachment.url) /\ ~Truthy(attachment.scrapedContent)

\* The attachment the map callback returns for a scrape result.
ApplyScrape(attachment, scraped) ==
  IF scraped.ok
  THEN [ attachment EXCEPT !.scrapedContent = scraped.content,
                           !.title = OrElse(scraped.title, attachment.title) ]
  ELSE attachment

\* ---- the aiChats table

ChatIds == { "chat-1", "chat-404" }

ChatDoc(exists, messages, pageContext) ==
  [ exists |-> exists, messages |-> messages, pageContext |-> pageContext ]

NoChat == ChatDoc(FALSE, << >>, Undefined)

\* addAssistantMessage: the message appended to the chat's messages in one
\* step; nothing to append to when the chat does not exist.
AppendAssistantMessage(table, chatId, content) ==
  IF table[chatId].exists
  THEN [ table EXCEPT ![chatId].messages = Append(@, ChatMessage("assistant", content, << >>)) ]
  ELSE table

\* ---- the handler

Procs == { "p1", "p2" }

\* Invocations of generateResponse followed.
MaxCalls == 2

NoArgs ==
  [ chatId |-> "chat-404", userMessage |-> Undefined, model |-> Undefined,
    pageContext |-> Undefined, attachments |-> << >> ]

Returned(value) == [ raised |-> FALSE, value |-> value ]

Raised(message) == [ raised |-> TRUE, value |-> message ]

NoResult == [ raised |-> FALSE, value |-> Undefined ]

NoPrev == [ provider |-> "none", kind |-> "none", result |-> NoResult ]

ChatIdle ==
  /\ chats = [ c \in ChatIds |-> NoChat ]
  /\ gpc = [ p \in Procs |-> "idle" ]
  /\ gargs = [ p \in Procs |-> NoArgs ]
  /\ gprovider = [ p \in Procs |-> "none" ]
  /\ gchat = [ p \in Procs |-> NoChat ]
  /\ gsystem = [ p \in Procs |-> << >> ]
  /\ gatts = [ p \in Procs |-> << >> ]
  /\ gscrape = [ p \in Procs |-> << >> ]
  /\ grequest = [ p \in Procs |-> NoRequest ]
  /\ gassistant = [ p \in Procs |-> Undefined ]
  /\ gresult = [ p \in Procs |-> NoResult ]
  /\ gkind = [ p \in Procs |-> "none" ]
  /\ gerror = [ p \in Procs |-> Thrown(FALSE, << >>) ]
  /\ gprev = [ p \in Procs |-> NoPrev ]
  /\ gcalls = 0
  /\ gsent = [ p \in Procs |-> 0 ]
  /\ gscrapes = [ p \in Procs |-> 0 ]
  /\ gpersists = [ p \in Procs |-> << >> ]

OutsideChat == << themeVars, imageVars, env, selVars, diffVars >>

\* The handler is entered: model, provider, credential.  Without a
\* credential the instructions become the assistant message and the
\* mutation is awaited; with one the chat is asked for.
generateResponse(p, args) ==
  /\ gpc[p] \in { "idle", "done" }
  /\ gcalls < MaxCalls
  /\ gcalls' = gcalls + 1
  /\ LET selectedModel == SelectedModel(args.model)
         provider == getProviderFromModel(selectedModel)
         apiKey == getApiKeyForProvider(provider)
     IN /\ gprovider' = [ gprovider EXCEPT ![p] = provider ]
        /\ IF ~Truthy(apiKey)
           THEN /\ gassistant' = [ gassistant EXCEPT ![p] = getNotConfiguredMessage(provider) ]
                /\ gkind' = [ gkind EXCEPT ![p] = "notConfigured" ]
                /\ gpc' = [ gpc EXCEPT ![p] = "persist" ]
           ELSE /\ gassistant' = [ gassistant EXCEPT ![p] = Undefined ]
                /\ gkind' = [ gkind EXCEPT ![p] = "none" ]
                /\ gpc' = [ gpc EXCEPT ![p] = "getChat" ]
  /\ gargs' = [ gargs EXCEPT ![p] = args ]
  /\ gprev' = [ gprev EXCEPT ![p] =
                  IF gpc[p] = "done"
                  THEN [ provider |-> gprovider[p], kind |-> gkind[p], result |-> gresult[p] ]
                  ELSE @ ]
  /\ gchat' = [ gchat EXCEPT ![p] = NoChat ]
  /\ gsystem' = [ gsystem EXCEPT ![p] = << >> ]
  /\ gatts' = [ gatts EXCEPT ![p] = << >> ]
  /\ gscrape' = [ gscrape EXCEPT ![p] = << >> ]
  /\ grequest' = [ grequest EXCEPT ![p] = NoRequest ]
  /\ gresult' = [ gresult EXCEPT ![p] = NoResult ]
  /\ gerror' = [ gerror EXCEPT ![p] = Thrown(FALSE, << >>) ]
  /\ gsent' = [ gsent EXCEPT ![p] = 0 ]
  /\ gscrapes' = [ gscrapes EXCEPT ![p] = 0 ]
  /\ gpersists' = [ gpersists EXCEPT ![p] = << >> ]
  /\ UNCHANGED chats
  /\ UNCHANGED OutsideChat

\* getAIChatInternal answers.  No chat: the handler throws.  Otherwise the
\* system prompt is built and one scrape is started for every attachment
\* that needs one (scrapeUrl answers null at once without the Firecrawl key).
getAIChatInternal(p) ==
  /\ gpc[p] = "getChat"
  /\ LET chat == chats[gargs[p].chatId]
         atts == gargs[p].attachments
         started == { i \in 1..Len(atts) :
                        NeedsScrape(atts[i]) /\ Truthy(env["FIRECRAWL_API_KEY"]) }
     IN IF ~chat.exists
        THEN /\ gresult' = [ gresult EXCEPT ![p] = Raised(<< "Chat not found" >>) ]
             /\ gkind' = [ gkind EXCEPT ![p] = "chatNotFound" ]
             /\ gpc' = [ gpc EXCEPT ![p] = "done" ]
             /\ UNCHANGED << gchat, gsystem, gatts, gscrape, gscrapes >>
        ELSE /\ gchat' = [ gchat EXCEPT ![p] = chat ]
             /\ gsystem' = [ gsystem EXCEPT ![p] =
                               SystemPromptFor(gargs[p].pageContext, chat.pageContext) ]
             /\ gatts' = [ gatts EXCEPT ![p] = atts ]
             /\ gscrape' = [ gscrape EXCEPT ![p] =
                               [ i \in 1..Len(atts) |->
                                   IF i \in started THEN "pending"
                                   ELSE IF NeedsScrape(atts[i]) THEN "noKey"
                                   ELSE "skip" ] ]
             /\ gscrapes' = [ gscrapes EXCEPT ![p] = Cardinality(started) ]
             /\ gpc' = [ gpc EXCEPT ![p] = "scrape" ]
             /\ UNCHANGED << gresult, gkind >>
  /\ UNCHANGED << chats, gargs, gprovider, grequest, gassistant, gerror, gprev, gcalls, gsent,
                  gpersists >>
  /\ UNCHANGED OutsideChat

\* Firecrawl answers one of the scrapes in flight.
scrapeUrl(p, i) ==
  /\ gpc[p] = "scrape"
  /\ i \in 1..Len(gscrape[p])
  /\ gscrape[p][i] = "pending"
  /\ \E resp \in ScrapeResponses :
       /\ gatts' = [ gatts EXCEPT ![p][i] = ApplyScrape(@, ScrapeResult(resp)) ]
       /\ gscrape' = [ gscrape EXCEPT ![p][i] = ScrapeOutcome(resp) ]
  /\ UNCHANGED << chats, gpc, gargs, gprovider, gchat, gsystem, grequest, gassistant, gresult,
                  gkind, gerror, gprev, gcalls, gsent, gscrapes, gpersists >>
  /\ UNCHANGED OutsideChat

\* Promise.all has settled: the messages are built (a failing image lookup
\* throws out of the handler) and the request goes to the provider.
CallProvider(p) ==
  /\ gpc[p] = "scrape"
  /\ \A i \in 1..Len(gscrape[p]) : gscrape[p][i] # "pending"
  /\ LET built == FormattedMessages(gchat[p].messages, gargs[p].userMessage, gatts[p]) IN
     IF built.threw
     THEN /\ gresult' = [ gresult EXCEPT ![p] = Raised(<< "Storage lookup failed" >>) ]
          /\ gkind' = [ gkind EXCEPT ![p] = "lookupFailed" ]
          /\ gpc' = [ gpc EXCEPT ![p] = "done" ]
          /\ UNCHANGED << grequest, gsent >>
     ELSE /\ grequest' = [ grequest EXCEPT ![p] =
                             RequestFor(gprovider[p], SelectedModel(gargs[p].model),
                                        gsystem[p], built.messages) ]
          /\ gsent' = [ gsent EXCEPT ![p] = @ + 1 ]
          /\ gpc' = [ gpc EXCEPT ![p] = "provider" ]
          /\ UNCHANGED << gresult, gkind >>
  /\ UNCHANGED << chats, gargs, gprovider, gchat, gsystem, gatts, gscrape, gassistant, gerror,
                  gprev, gcalls, gscrapes, gpersists >>
  /\ UNCHANGED OutsideChat

\* The provider answers.
ProviderResponds(p) ==
  /\ gpc[p] = "provider"
  /\ \E resp \in ProviderResponses :
       LET parsed == ParseResponse(gprovider[p], resp) IN
       IF parsed.threw
       THEN /\ gassistant' = [ gassistant EXCEPT ![p] = ErrorAssistantMessage(gprovider[p], parsed.error) ]
            /\ gkind' = [ gkind EXCEPT ![p] = "noText" ]
            /\ gerror' = [ gerror EXCEPT ![p] = parsed.error ]
       ELSE /\ gassistant' = [ gassistant EXCEPT ![p] = parsed.text ]
            /\ gkind' = [ gkind EXCEPT ![p] = "reply" ]
            /\ UNCHANGED gerror
  /\ gpc' = [ gpc EXCEPT ![p] = "persist" ]
  /\ UNCHANGED << chats, gargs, gprovider, gchat, gsystem, gatts, gscrape, grequest, gresult,
                  gprev, gcalls, gsent, gscrapes, gpersists >>
  /\ UNCHANGED OutsideChat

\* The provider call throws.
ProviderThrows(p) ==
  /\ gpc[p] = "provider"
  /\ \E e \in ProviderThrown :
       /\ gassistant' = [ gassistant EXCEPT ![p] = ErrorAssistantMessage(gprovider[p], e) ]
       /\ gerror' = [ gerror EXCEPT ![p] = e ]
  /\ gkind' = [ gkind EXCEPT ![p] = "threw" ]
  /\ gpc' = [ gpc EXCEPT ![p] = "persist" ]
  /\ UNCHANGED << chats, gargs, gprovider, gchat, gsystem, gatts, gscrape, grequest, gresult,
                  gprev, gcalls, gsent, gscrapes, gpersists >>
  /\ UNCHANGED OutsideChat

\* The mutation, were it to write back the messages the handler read at its
\* start with the new one added.
addAssistantMessageFromSnapshot(p) ==
  /\ gpc[p] = "persist"
  /\ chats' = [ chats EXCEPT ![gargs[p].chatId].messages =
                  Append(gchat[p].messages, ChatMessage("assistant", gassistant[p], << >>)) ]
  /\ gpersists' = [ gpersists EXCEPT ![p] =
                       Append(@, [ chatId |-> gargs[p].chatId, content |-> gassistant[p] ]) ]
  /\ gpc' = [ gpc EXCEPT ![p] = "return" ]
  /\ UNCHANGED << gargs, gprovider, gchat, gsystem, gatts, gscrape, grequest, gassistant,
                  gresult, gkind, gerror, gprev, gcalls, gsent, gscrapes >>
  /\ UNCHANGED OutsideChat

\* The handler going on to its return without running the mutation.
addAssistantMessageSkipped(p) ==
  /\ gpc[p] = "persist"
  /\ gpc' = [ gpc EXCEPT ![p] = "return" ]
  /\ UNCHANGED << chats, gpersists, gargs, gprovider, gchat, gsystem, gatts, gscrape, grequest,
                  gassistant, gresult, gkind, gerror, gprev, gcalls, gsent, gscrapes >>
  /\ UNCHANGED OutsideChat

\* The addAssistantMessage mutation runs.
addAssistantMessage(p) ==
  /\ gpc[p] = "persist"
  /\ chats' = AppendAssistantMessage(chats, gargs[p].chatId, gassistant[p])
  /\ gpersists' = [ gpersists EXCEPT ![p] =
                       Append(@, [ chatId |-> gargs[p].chatId, content |-> gassistant[p] ]) ]
  /\ gpc' = [ gpc EXCEPT ![p] = "return" ]
  /\ UNCHANGED << gargs, gprovider, gchat, gsystem, gatts, gscrape, grequest, gassistant,
                  gresult, gkind, gerror, gprev, gcalls, gsent, gscrapes >>
  /\ UNCHANGED OutsideChat

\* return assistantMessage / return notConfiguredMessage
ReturnMessage(p) ==
  /\ gpc[p] = "return"
  /\ gresult' = [ gresult EXCEPT ![p] = Returned(gassistant[p]) ]
  /\ gpc' = [ gpc EXCEPT ![p] = "done" ]
  /\ UNCHANGED << chats, gargs, gprovider, gchat, gsystem, gatts, gscrape, grequest, gassistant,
                  gkind, gerror, gprev, gcalls, gsent, gscrapes, gpersists >>
  /\ UNCHANGED OutsideChat

\* ------------------------------------------------------ specifications

ThemeIdle ==
  /\ htmlTheme = Null
  /\ lsAvailable = TRUE
  /\ lsTheme = Null
  /\ metaPresent = FALSE
  /\ metaContent = Null
  /\ defaultTheme = "tan"
  /\ theme = Null
  /\ tpc = "unmounted"
  /\ effectPending = FALSE
  /\ lastOp = "none"
  /\ prevTheme = Null
  /\ toggleOrigin = Null
  /\ toggleCount = 0

NoEnv == [ n \in EnvNames |-> Undefined ]

EnvIdle == env = NoEnv

SelIdle ==
  /\ mname = Undefined
  /\ mselected = Undefined
  /\ mprovider = "none"

\* The theme store alone.
ThemeStart ==
  /\ ThemeInit
  /\ EnvIdle
  /\ ImageIdle
  /\ ChatIdle
  /\ SelIdle
  /\ DiffIdle

SpecTheme == ThemeStart /\ [][ThemeNext]_vars

\* generateImage alone, the Google credential absent, empty or set.
ImageInit ==
  /\ env \in { [ NoEnv EXCEPT !["GOOGLE_AI_API_KEY"] = k ] : k \in EnvValues }
  /\ ImageIdle
  /\ ThemeIdle
  /\ ChatIdle
  /\ SelIdle
  /\ DiffIdle

SpecImage == ImageInit /\ [][ImageNext]_vars

\* ---- generateResponse, one invocation after another

API_KEY == << "secret-key" >>

\* Every combination of the three provider credentials set or not, without
\* and (for Anthropic alone and for all three) with the Firecrawl key, and
\* all four set to the empty string.
ChatEnvs ==
  { [ NoEnv EXCEPT !["ANTHROPIC_API_KEY"] = a, !["OPENAI_API_KEY"] = o,
                   !["GOOGLE_AI_API_KEY"] = g ] :
      a \in { Undefined, API_KEY }, o \in { Undefined, API_KEY }, g \in { Undefined, API_KEY } }
  \cup { [ NoEnv EXCEPT !["ANTHROPIC_API_KEY"] = API_KEY, !["OPENAI_API_KEY"] = k,
                        !["GOOGLE_AI_API_KEY"] = k, !["FIRECRAWL_API_KEY"] = API_KEY ] :
           k \in { Undefined, API_KEY } }
  \cup { [ NoEnv EXCEPT !["ANTHROPIC_API_KEY"] = << >>, !["OPENAI_API_KEY"] = << >>,
                        !["GOOGLE_AI_API_KEY"] = << >>, !["FIRECRAWL_API_KEY"] = << >> ] }

URL_A == << "https://example.com/a" >>

URL_B == << "https://example.com/b" >>

\* Histories of the stored chat: empty, a turn with a deleted image, a turn
\* whose image lookup fails.
ChatHistories ==
  { << >>,
    << ChatMessage("user", << "Draft an intro" >>, << ImageAttachment(IMG_GONE) >>),
       ChatMessage("assistant", << "Here is an intro." >>, << >>) >>,
    << ChatMessage("user", << "Describe this" >>, << ImageAttachment(IMG_ERR) >>) >> }

ChatAttachmentLists ==
  { << >>,
    << LinkAttachment(URL_A, Undefined) >>,
    << ImageAttachment(IMG_OK), LinkAttachment(URL_B, << "Scraped before" >>) >> }

ChatArgs ==
  [ chatId : ChatIds,
    userMessage : { << "Tighten this paragraph" >> },
    model : modelValidator \cup { Undefined },
    pageContext : { Undefined },
    attachments : ChatAttachmentLists ]

ChatInit ==
  /\ env \in ChatEnvs
  /\ \E h \in ChatHistories :
       chats = [ c \in ChatIds |-> IF c = "chat-1" THEN ChatDoc(TRUE, h, Undefined) ELSE NoChat ]
  /\ gpc = [ p \in Procs |-> "idle" ]
  /\ gargs = [ p \in Procs |-> NoArgs ]
  /\ gprovider = [ p \in Procs |-> "none" ]
  /\ gchat = [ p \in Procs |-> NoChat ]
  /\ gsystem = [ p \in Procs |-> << >> ]
  /\ gatts = [ p \in Procs |-> << >> ]
  /\ gscrape = [ p \in Procs |-> << >> ]
  /\ grequest = [ p \in Procs |-> NoRequest ]
  /\ gassistant = [ p \in Procs |-> Undefined ]
  /\ gresult = [ p \in Procs |-> NoResult ]
  /\ gkind = [ p \in Procs |-> "none" ]
  /\ gerror = [ p \in Procs |-> Thrown(FALSE, << >>) ]
  /\ gprev = [ p \in Procs |-> NoPrev ]
  /\ gcalls = 0
  /\ gsent = [ p \in Procs |-> 0 ]
  /\ gscrapes = [ p \in Procs |-> 0 ]
  /\ gpersists = [ p \in Procs |-> << >> ]
  /\ ThemeIdle
  /\ ImageIdle
  /\ SelIdle
  /\ DiffIdle

\* The steps of the invocations in slots P, called with arguments of Args.
ChatNext(P, Args) ==
  \E p \in P :
    \/ \E args \in Args : generateResponse(p, args)
    \/ getAIChatInternal(p)
    \/ \E i \in 1..Len(gscrape[p]) : scrapeUrl(p, i)
    \/ CallProvider(p)
    \/ ProviderResponds(p)
    \/ ProviderThrows(p)
    \/ addAssistantMessage(p)
    \/ ReturnMessage(p)

Spec == ChatInit /\ [][ChatNext({ "p1" }, ChatArgs)]_vars

\* ---- generateResponse on long histories

\* The longest stored history tried.
MaxHistory == 25

\* The turns a stored history cycles through.
TurnPattern == << "text", "answer", "image", "answer", "link", "answer" >>

\* The i-th stored message, of the given kind.
HistoryTurn(i, kind) ==
  LET text == << "message ", ToString(i) >> IN
  IF kind = "text" THEN ChatMessage("user", text, << >>)
  ELSE IF kind = "image" THEN ChatMessage("user", << >>, << ImageAttachment(IMG_OK) >>)
  ELSE IF kind = "link" THEN ChatMessage("user", text, << LinkAttachment(URL_B, << "Scraped before" >>) >>)
  ELSE ChatMessage("assistant", text, << >>)

\* The history of n turns that enters the pattern after shift turns.
HistoryOf(n, shift) ==
  [ i \in 1..n |-> HistoryTurn(i, TurnPattern[((i - 1 + shift) % Len(TurnPattern)) + 1]) ]

WindowEnv ==
  [ NoEnv EXCEPT !["ANTHROPIC_API_KEY"] = API_KEY, !["OPENAI_API_KEY"] = API_KEY,
                 !["GOOGLE_AI_API_KEY"] = API_KEY, !["FIRECRAWL_API_KEY"] = API_KEY ]

WindowArgs ==
  [ chatId : { "chat-1" },
    userMessage : { << "Tighten this paragraph" >>, << >> },
    model : modelValidator,
    pageContext : { Undefined },
    attachments : { << >>, << ImageAttachment(IMG_OK) >>, << LinkAttachment(URL_A, Undefined) >> } ]

\* One invocation on a stored history of up to MaxHistory turns.
WindowInit ==
  /\ env = WindowEnv
  /\ \E n \in 0..MaxHistory, shift \in 0..(Len(TurnPattern) - 1) :
       chats = [ c \in ChatIds |->
                   IF c = "chat-1" THEN ChatDoc(TRUE, HistoryOf(n, shift), Undefined) ELSE NoChat ]
  /\ gpc = [ p \in Procs |-> "idle" ]
  /\ gargs = [ p \in Procs |-> NoArgs ]
  /\ gprovider = [ p \in Procs |-> "none" ]
  /\ gchat = [ p \in Procs |-> NoChat ]
  /\ gsystem = [ p \in Procs |-> << >> ]
  /\ gatts = [ p \in Procs |-> << >> ]
  /\ gscrape = [ p \in Procs |-> << >> ]
  /\ grequest = [ p \in Procs |-> NoRequest ]
  /\ gassistant = [ p \in Procs |-> Undefined ]
  /\ gresult = [ p \in Procs |-> NoResult ]
  /\ gkind = [ p \in Procs |-> "none" ]
  /\ gerror = [ p \in Procs |-> Thrown(FALSE, << >>) ]
  /\ gprev = [ p \in Procs |-> NoPrev ]
  /\ gcalls = MaxCalls - 1
  /\ gsent = [ p \in Procs |-> 0 ]
  /\ gscrapes = [ p \in Procs |-> 0 ]
  /\ gpersists = [ p \in Procs |-> << >> ]
  /\ ThemeIdle
  /\ ImageIdle
  /\ SelIdle
  /\ DiffIdle

SpecWindow == WindowInit /\ [][ChatNext({ "p1" }, WindowArgs)]_vars

\* ---- provider selection on its own

\* ---- a diff block on a page

\* The page before its first render: nothing stored, the meta tag there.
DiffInit ==
  /\ htmlTheme = Null
  /\ lsAvailable = TRUE
  /\ lsTheme \in { Null, "dark", "cloud" }
  /\ metaPresent = TRUE
  /\ metaContent = themeColors["tan"]
  /\ defaultTheme = "tan"
  /\ theme = Null
  /\ tpc = "unmounted"
  /\ effectPending = FALSE
  /\ lastOp = "none"
  /\ prevTheme = Null
  /\ toggleOrigin = Null
  /\ toggleCount = 0
  /\ DiffIdle
  /\ EnvIdle
  /\ ImageIdle
  /\ ChatIdle
  /\ SelIdle

\* The theme provider and a diff block under it.
SpecDiff == DiffInit /\ [][ThemeProvider \/ ApplyThemeEffect \/ toggleTheme \/ DiffNext]_vars

\* ---- a call with several attachments

\* Attachment lists with two links to scrape around an image and a link
\* scraped before, and with a link that has no URL.
ScrapeAttachmentLists ==
  { << LinkAttachment(URL_A, Undefined), ImageAttachment(IMG_OK),
       LinkAttachment(URL_B, << "Scraped before" >>), LinkAttachment(URL_B, Undefined) >>,
    << LinkAttachment(Undefined, Undefined), LinkAttachment(URL_A, Undefined) >>,
    << >> }

ScrapeArgs ==
  [ chatId : { "chat-1" },
    userMessage : { << "Summarise these pages" >> },
    model : modelValidator,
    pageContext : { Undefined },
    attachments : ScrapeAttachmentLists ]

\* One invocation with every provider configured, with and without the
\* Firecrawl key.
ScrapeInit ==
  /\ env \in { WindowEnv, [ WindowEnv EXCEPT !["FIRECRAWL_API_KEY"] = Undefined ] }
  /\ \E h \in { << >>, << ChatMessage("user", << "Draft an intro" >>, << ImageAttachment(IMG_GONE) >>) >> } :
       chats = [ c \in ChatIds |-> IF c = "chat-1" THEN ChatDoc(TRUE, h, Undefined) ELSE NoChat ]
  /\ gpc = [ p \in Procs |-> "idle" ]
  /\ gargs = [ p \in Procs |-> NoArgs ]
  /\ gprovider = [ p \in Procs |-> "none" ]
  /\ gchat = [ p \in Procs |-> NoChat ]
  /\ gsystem = [ p \in Procs |-> << >> ]
  /\ gatts = [ p \in Procs |-> << >> ]
  /\ gscrape = [ p \in Procs |-> << >> ]
  /\ grequest = [ p \in Procs |-> NoRequest ]
  /\ gassistant = [ p \in Procs |-> Undefined ]
  /\ gresult = [ p \in Procs |-> NoResult ]
  /\ gkind = [ p \in Procs |-> "none" ]
  /\ gerror = [ p \in Procs |-> Thrown(FALSE, << >>) ]
  /\ gprev = [ p \in Procs |-> NoPrev ]
  /\ gcalls = MaxCalls - 1
  /\ gsent = [ p \in Procs |-> 0 ]
  /\ gscrapes = [ p \in Procs |-> 0 ]
  /\ gpersists = [ p \in Procs |-> << >> ]
  /\ ThemeIdle
  /\ ImageIdle
  /\ SelIdle
  /\ DiffIdle

SpecScrape == ScrapeInit /\ [][ChatNext({ "p1" }, ScrapeArgs)]_vars

\* ---- two calls on one chat

\* What the chat holds before the two calls.
SharedHistory == << ChatMessage("user", << "Draft an intro" >>, << >>) >>

\* Anthropic and Google configured, OpenAI not.
SharedEnv == [ WindowEnv EXCEPT !["OPENAI_API_KEY"] = Undefined ]

SharedArgs ==
  [ chatId : { "chat-1" },
    userMessage : { << "Tighten this paragraph" >> },
    model : modelValidator,
    pageContext : { Undefined },
    attachments : { << >>, << LinkAttachment(URL_A, Undefined) >> } ]

\* Two invocations are left to start, in either slot.
SharedInit ==
  /\ env = SharedEnv
  /\ chats = [ c \in ChatIds |-> IF c = "chat-1" THEN ChatDoc(TRUE, SharedHistory, Undefined) ELSE NoChat ]
  /\ gpc = [ p \in Procs |-> "idle" ]
  /\ gargs = [ p \in Procs |-> NoArgs ]
  /\ gprovider = [ p \in Procs |-> "none" ]
  /\ gchat = [ p \in Procs |-> NoChat ]
  /\ gsystem = [ p \in Procs |-> << >> ]
  /\ gatts = [ p \in Procs |-> << >> ]
  /\ gscrape = [ p \in Procs |-> << >> ]
  /\ grequest = [ p \in Procs |-> NoRequest ]
  /\ gassistant = [ p \in Procs |-> Undefined ]
  /\ gresult = [ p \in Procs |-> NoResult ]
  /\ gkind = [ p \in Procs |-> "none" ]
  /\ gerror = [ p \in Procs |-> Thrown(FALSE, << >>) ]
  /\ gprev = [ p \in Procs |-> NoPrev ]
  /\ gcalls = MaxCalls - 2
  /\ gsent = [ p \in Procs |-> 0 ]
  /\ gscrapes = [ p \in Procs |-> 0 ]
  /\ gpersists = [ p \in Procs |-> << >> ]
  /\ ThemeIdle
  /\ ImageIdle
  /\ SelIdle
  /\ DiffIdle

\* Invocations in both slots, their steps interleaved.
SpecShared == SharedInit /\ [][ChatNext(Procs, SharedArgs)]_vars

\* ---- the system prompt

BLANK == << " ", "\n" >>

PROMPT_STYLE == << " ", "Write plainly.", "\n" >>

PROMPT_COMMUNITY == << "Be kind to newcomers." >>

PROMPT_RULES == << "Never use em dashes." >>

PROMPT_WHOLE == << "You edit a markdown site." >>

PAGE_OF_CALL == << "# Setup guide" >>

PAGE_OF_CHAT == << "# Changelog" >>

\* Every provider configured; each prompt variable unset, blank or empty, or
\* set.
PromptEnvs ==
  { [ WindowEnv EXCEPT !["CLAUDE_PROMPT_STYLE"] = s, !["CLAUDE_PROMPT_COMMUNITY"] = c,
                       !["CLAUDE_PROMPT_RULES"] = r, !["CLAUDE_SYSTEM_PROMPT"] = w ] :
      s \in { Undefined, BLANK, PROMPT_STYLE }, c \in { Undefined, << >>, PROMPT_COMMUNITY },
      r \in { Undefined, BLANK, PROMPT_RULES }, w \in { Undefined, << >>, PROMPT_WHOLE } }

PromptArgs ==
  [ chatId : { "chat-1" },
    userMessage : { << "Tighten this paragraph" >> },
    model : modelValidator,
    pageContext : { Undefined, << >>, PAGE_OF_CALL },
    attachments : { << >>, << LinkAttachment(URL_A, Undefined) >> } ]

\* One invocation under each prompt configuration, on a chat with or without
\* a stored page context.
PromptInit ==
  /\ env \in PromptEnvs
  /\ \E pc \in { Undefined, << >>, PAGE_OF_CHAT } :
       chats = [ c \in ChatIds |-> IF c = "chat-1" THEN ChatDoc(TRUE, << >>, pc) ELSE NoChat ]
  /\ gpc = [ p \in Procs |-> "idle" ]
  /\ gargs = [ p \in Procs |-> NoArgs ]
  /\ gprovider = [ p \in Procs |-> "none" ]
  /\ gchat = [ p \in Procs |-> NoChat ]
  /\ gsystem = [ p \in Procs |-> << >> ]
  /\ gatts = [ p \in Procs |-> << >> ]
  /\ gscrape = [ p \in Procs |-> << >> ]
  /\ grequest = [ p \in Procs |-> NoRequest ]
  /\ gassistant = [ p \in Procs |-> Undefined ]
  /\ gresult = [ p \in Procs |-> NoResult ]
  /\ gkind = [ p \in Procs |-> "none" ]
  /\ gerror = [ p \in Procs |-> Thrown(FALSE, << >>) ]
  /\ gprev = [ p \in Procs |-> NoPrev ]
  /\ gcalls = MaxCalls - 1
  /\ gsent = [ p \in Procs |-> 0 ]
  /\ gscrapes = [ p \in Procs |-> 0 ]
  /\ gpersists = [ p \in Procs |-> << >> ]
  /\ ThemeIdle
  /\ ImageIdle
  /\ SelIdle
  /\ DiffIdle

SpecPrompt == PromptInit /\ [][ChatNext({ "p1" }, PromptArgs)]_vars

NamePrefixes ==
  { << >>,
    << "c", "l", "a", "u", "d", "e" >>,
    << "g", "p", "t" >>,
    << "g", "e", "m", "i", "n", "i" >>,
    << "C", "l", "a", "u", "d", "e" >>,
    << "G", "P", "T" >>,
    << "G", "e", "m", "i", "n", "i" >>,
    << "c" >>,
    << "c", "l" >>,
    << "g", "p" >>,
    << "g", "e", "m" >>,
    << "o", "1" >>,
    << "x", "-" >> }

NameSuffixes ==
  { << >>,
    << "-", "4", "o" >>,
    << "-", "3" >>,
    << "c", "l", "a", "u", "d", "e" >>,
    << "g", "p", "t" >>,
    << "g", "e", "m", "i", "n", "i" >> }

\* Model names a caller may pass: the three the validator names, and names
\* that carry a provider's word in front, further in, in capitals, in part
\* or not at all.
ModelNames == modelValidator \cup { a \o b : a \in NamePrefixes, b \in NameSuffixes }

\* const selectedModel = args.model || "claude-sonnet-4-20250514";
\* const provider = getProviderFromModel(selectedModel);
SelectProvider ==
  /\ mprovider = "none"
  /\ mselected' = SelectedModel(mname)
  /\ mprovider' = getProviderFromModel(mselected')
  /\ UNCHANGED << mname, themeVars, env, imageVars, chatVars, diffVars >>

ProviderInit ==
  /\ mname \in ModelNames \cup { Undefined }
  /\ mselected = Undefined
  /\ mprovider = "none"
  /\ EnvIdle
  /\ ThemeIdle
  /\ ImageIdle
  /\ ChatIdle
  /\ DiffIdle

SpecProvider == ProviderInit /\ [][SelectProvider]_vars

\* ------------------------------------------------------------ claims

\* The cyclic order the toggle is documented to follow.
CycleNext == [ dark |-> "light", light |-> "tan", tan |-> "cloud", cloud |-> "dark" ]

\* C7: every toggleTheme moves the theme one step along dark -> light -> tan
\* -> cloud -> dark, and after four toggles in a row the theme is the one the
\* run started from.
C7_ToggleCyclesInOrder ==
  /\ (lastOp = "toggle" => theme = CycleNext[prevTheme])
  /\ (toggleCount = 4 => theme = toggleOrigin)

C7_Witness ==
  /\ toggleCount = 4
  /\ lastOp = "toggle"
  /\ toggleOrigin = "cloud"
  /\ prevTheme = "tan"
  /\ theme = "cloud"

\* C8: right after the first render the theme is the document attribute when
\* that is a valid theme, else the stored "blog-theme" item when storage can
\* be read and the item is a valid theme, else the configured default.
C8_InitialThemeOrder ==
  (lastOp = "mount" /\ effectPending) =>
     theme = IF htmlTheme \in { "dark", "light", "tan", "cloud" } THEN htmlTheme
             ELSE IF lsAvailable /\ lsTheme \in { "dark", "light", "tan", "cloud" } THEN lsTheme
             ELSE defaultTheme

C8_Witness ==
  /\ lastOp = "mount"
  /\ effectPending
  /\ htmlTheme = "sepia"
  /\ lsTheme = "cloud"
  /\ defaultTheme = "tan"
  /\ theme = "cloud"

\* C9: once the effect of a transition has run, the stored item, the
\* data-theme attribute and (when the tag exists) the meta theme-color content
\* all belong to the current theme.
C9_TransitionApplied ==
  (tpc = "mounted" /\ ~effectPending) =>
     /\ lsTheme = theme
     /\ htmlTheme = theme
     /\ (metaPresent => metaContent = themeColors[theme])

C9_Witness ==
  /\ tpc = "mounted"
  /\ ~effectPending
  /\ lastOp = "toggle"
  /\ prevTheme = "dark"
  /\ theme = "light"
  /\ lsTheme = "light"
  /\ htmlTheme = "light"
  /\ metaPresent
  /\ metaContent = "#ffffff"

\* ---- generateResponse

\* The invocation in slot p has ended and the credential of the provider it
\* selected is not in the environment.
EndedUnconfigured(p) ==
  /\ gpc[p] = "done"
  /\ gprovider[p] \in Providers
  /\ ~Truthy(env[ProviderEnvVar[gprovider[p]]])

\* The environment variables of the providers other than the given one.
OtherEnvVars(provider) == { ProviderEnvVar[q] : q \in Providers \ { provider } }

\* C1: an invocation whose provider has no credential returns the setup
\* instructions of that provider, naming its environment variable and no
\* other provider's; the one string handed to addAssistantMessage for the
\* chat is the returned string; no request goes to a provider; and the
\* invocation before it, when it selected the same provider, returned the
\* same string.
C1_NotConfiguredMessage ==
  \A p \in Procs :
    EndedUnconfigured(p) =>
      /\ ~gresult[p].raised
      /\ Includes(gresult[p].value, << " is not configured.**\n\n" >>)
      /\ Includes(gresult[p].value, << ProviderEnvVar[gprovider[p]] >>)
      /\ \A other \in OtherEnvVars(gprovider[p]) : ~Includes(gresult[p].value, << other >>)
      /\ gpersists[p] = << [ chatId |-> gargs[p].chatId, content |-> gresult[p].value ] >>
      /\ gsent[p] = 0
      /\ (gprev[p].provider = gprovider[p] => gprev[p].result = gresult[p])

C1_Witness ==
  /\ EndedUnconfigured("p1")
  /\ gprovider["p1"] = "openai"
  /\ gprev["p1"].provider = "openai"
  /\ Truthy(env["ANTHROPIC_API_KEY"])
  /\ gargs["p1"].chatId = "chat-1"
  /\ Len(chats["chat-1"].messages) >= 2
  /\ chats["chat-1"].messages[Len(chats["chat-1"].messages)].content = gresult["p1"].value
  /\ Includes(gresult["p1"].value, << "OPENAI_API_KEY" >>)

\* The invocation in slot p has ended after its provider call threw or
\* answered without text content.
EndedAfterProviderFailure(p) ==
  /\ gpc[p] = "done"
  /\ gkind[p] \in { "threw", "noText" }

\* The returned value is an error message of the selected provider and is
\* the one string handed to addAssistantMessage for the chat.
ReturnsProviderError(p) ==
  /\ ~gresult[p].raised
  /\ StartsWith(gresult[p].value, << "**Error from ", gprovider[p], ":**" >>)
  /\ gpersists[p] = << [ chatId |-> gargs[p].chatId, content |-> gresult[p].value ] >>

\* C2 as stated: after a provider call that threw or answered without text
\* content the invocation returns, for every provider, a message that starts
\* with the provider's error prefix and contains the text of what was thrown,
\* and that message is the one persisted.
C2_ErrorCarriesFailureText ==
  \A p \in Procs :
    EndedAfterProviderFailure(p) =>
      /\ ReturnsProviderError(p)
      /\ Includes(gresult[p].value, gerror[p].message)

\* C2: after a provider call that threw or answered without text content the
\* invocation returns, for every provider, a message that starts with the
\* provider's error prefix and is the one persisted; it contains the message
\* of the Error thrown, and the words Unknown error when what was thrown is
\* not an Error.
C2_ErrorMessageReturned ==
  \A p \in Procs :
    EndedAfterProviderFailure(p) =>
      /\ ReturnsProviderError(p)
      /\ (gerror[p].isError => Includes(gresult[p].value, gerror[p].message))
      /\ (~gerror[p].isError => Includes(gresult[p].value, << "Unknown error" >>))

C2_Witness ==
  /\ EndedAfterProviderFailure("p1")
  /\ gprovider["p1"] = "google"
  /\ gkind["p1"] = "threw"
  /\ gerror["p1"] = Thrown(TRUE, ERR_OVERLOADED)
  /\ gresult["p1"].value = << "**Error from ", "google", ":**", " " >> \o ERR_OVERLOADED
  /\ chats["chat-1"].messages[Len(chats["chat-1"].messages)].content = gresult["p1"].value

\* C6 as stated: every invocation that has ended returned a string; none
\* raised.
C6_NeverRaises ==
  \A p \in Procs : gpc[p] = "done" => (~gresult[p].raised /\ gresult[p].value # Undefined)

\* ---- the history window

\* The stored messages an invocation is to forward: the last min(n, 20).
LastTwenty(history) ==
  LET n == Len(history)
      k == IF n < 20 THEN n ELSE 20
  IN [ j \in 1..k |-> history[n - k + j] ]

\* The conversation in the request sent: OpenAI's list without the system
\* message that leads it.
Forwarded(p) ==
  IF grequest[p].provider = "openai" THEN Tail(grequest[p].messages) ELSE grequest[p].messages

\* The first text a forwarded message holds, empty when it holds none.
FirstText(f) ==
  IF f.content.isString THEN f.content.text
  ELSE LET IsText(b) == b.type = "text"
           texts == SelectSeq(f.content.blocks, IsText)
       IN IF Len(texts) = 0 THEN << >> ELSE texts[1].text

\* The role a stored role has on the provider's wire.
WireRole(provider, role) == IF provider = "google" /\ role = "assistant" THEN "model" ELSE role

\* Forwarded message f is stored message m: its role and its text.
Carries(provider, f, m) ==
  /\ f.role = WireRole(provider, m.role)
  /\ (Truthy(m.content) => FirstText(f) = m.content)

\* Forwarded message f is the new user message of slot p.
CarriesNew(p, f) ==
  /\ f.role = "user"
  /\ (Truthy(gargs[p].userMessage) => FirstText(f) = gargs[p].userMessage)

\* The stored messages older than the last twenty are in no forwarded message.
OldestLeftOut(p) ==
  LET history == gchat[p].messages
      fwd == Forwarded(p)
  IN \A j \in 1..(Len(history) - 20) :
       Truthy(history[j].content) =>
         \A i \in 1..Len(fwd) : FirstText(fwd[i]) # history[j].content

\* C3 as stated: the request sent carries the last min(n, 20) stored
\* messages in order and with their roles, then the new user message; 21
\* messages for a history of 25, the 5 oldest left out.
C3_LastTwentyForwarded ==
  \A p \in Procs :
    gsent[p] = 1 =>
      LET src == LastTwenty(gchat[p].messages)
          fwd == Forwarded(p)
      IN /\ Len(fwd) = Len(src) + 1
         /\ \A j \in 1..Len(src) : Carries(gprovider[p], fwd[j], src[j])
         /\ CarriesNew(p, fwd[Len(fwd)])
         /\ OldestLeftOut(p)
         /\ (Len(gchat[p].messages) = 25 => Len(fwd) = 21)

\* A stored user message, or the new one, has text for Gemini: its own text
\* or a link attachment.
HasText(content, attachments) ==
  \/ Truthy(content)
  \/ \E i \in 1..Len(attachments) :
       /\ attachments[i].type = "link"
       /\ (Truthy(attachments[i].url) \/ Truthy(attachments[i].scrapedContent))

\* What the provider is left with: Anthropic and OpenAI every message,
\* Gemini the assistant messages and the user messages that have text.
KeptFor(provider, msg) ==
  provider # "google" \/ msg.role = "assistant" \/ HasText(msg.content, msg.attachments)

\* C3: the request sent to Anthropic or OpenAI carries the last min(n, 20)
\* stored messages in order and with their roles, then the new user message
\* (21 messages for a history of 25, the 5 oldest left out); the request sent
\* to Gemini carries the same list without the messages that have no text,
\* the new user message included, assistant messages under the role model.
C3_WindowForwarded ==
  \A p \in Procs :
    gsent[p] = 1 =>
      LET Keep(m) == KeptFor(gprovider[p], m)
          src == SelectSeq(LastTwenty(gchat[p].messages), Keep)
          fwd == Forwarded(p)
          newKept == gprovider[p] # "google" \/ HasText(gargs[p].userMessage, gatts[p])
      IN /\ Len(fwd) = Len(src) + (IF newKept THEN 1 ELSE 0)
         /\ \A j \in 1..Len(src) : Carries(gprovider[p], fwd[j], src[j])
         /\ (newKept => CarriesNew(p, fwd[Len(fwd)]))
         /\ OldestLeftOut(p)
         /\ (Len(gchat[p].messages) = 25 /\ gprovider[p] # "google" => Len(fwd) = 21)

C3_Witness ==
  /\ gsent["p1"] = 1
  /\ gprovider["p1"] = "openai"
  /\ Len(gchat["p1"].messages) = 25
  /\ Len(grequest["p1"].messages) = 22
  /\ grequest["p1"].messages[1].role = "system"
  /\ FirstText(grequest["p1"].messages[2]) = << "message ", "6" >>
  /\ FirstText(grequest["p1"].messages[22]) = << "Tighten this paragraph" >>

\* ---- generateImage

\* C4: without GOOGLE_AI_API_KEY an invocation returns success = false with
\* an error that says not configured, and sends no request to the image API,
\* stores no blob and writes no metadata record.
C4_ImageNotConfigured ==
  (ipc = "done" /\ ~Truthy(env["GOOGLE_AI_API_KEY"])) =>
     /\ ~iresult.raised
     /\ ~iresult.success
     /\ Includes(iresult.error, << "not configured" >>)
     /\ iapiCalls = 0
     /\ istores = 0
     /\ isaves = 0
     /\ blobs = << >>
     /\ imageRecords = << >>

C4_Witness ==
  /\ ipc = "done"
  /\ env["GOOGLE_AI_API_KEY"] = << >>
  /\ icalls = 2
  /\ iargs.model = IMAGEN_MODEL
  /\ ~iresult.success
  /\ iresult.error = IMAGE_NOT_CONFIGURED

\* C5: an invocation that has ended did not throw: it returned success =
\* true with a storage id, or success = false with an error that is not
\* empty.
C5_ImageNeverThrows ==
  ipc = "done" =>
     /\ ~iresult.raised
     /\ \/ iresult.success /\ Truthy(iresult.storageId)
        \/ ~iresult.success /\ Truthy(iresult.error)

C5_Witness ==
  /\ ipc = "done"
  /\ ~iresult.success
  /\ iresult.error = << "**Image generation failed:** ", "Unknown error" >>
  /\ istores = 1
  /\ isaves = 0

\* ---- provider selection

\* C10: the provider follows from the model name alone: anthropic for a name
\* that starts with claude, openai for gpt, google for gemini, anthropic for
\* every other name; with no model argument the model is
\* claude-sonnet-4-20250514 and the provider anthropic.
C10_ProviderByPrefix ==
  mprovider # "none" =>
     /\ mname = Undefined =>
          /\ mselected = << "c", "l", "a", "u", "d", "e", "-", "s", "o", "n", "n", "e", "t", "-", "4", "-", "2", "0", "2", "5", "0", "5", "1", "4" >>
          /\ mprovider = "anthropic"
     /\ mname # Undefined =>
          mprovider =
            IF StartsWith(mname, << "c", "l", "a", "u", "d", "e" >>) THEN "anthropic"
            ELSE IF StartsWith(mname, << "g", "p", "t" >>) THEN "openai"
            ELSE IF StartsWith(mname, << "g", "e", "m", "i", "n", "i" >>) THEN "google"
            ELSE "anthropic"

C10_Witness ==
  /\ mname = << "g", "p", "t", "c", "l", "a", "u", "d", "e" >>
  /\ mselected = mname
  /\ mprovider = "openai"

\* ---- credentials of the providers not selected

\* What an ended invocation gave back and persisted, written from its
\* provider, its own credential and what the provider did.
OutcomeFromOwnCredential(p) ==
  LET own == env[ProviderEnvVar[gprovider[p]]] IN
  IF ~Truthy(own)
  THEN /\ gresult[p] = Returned(NotConfiguredText(NotConfiguredConfigs[gprovider[p]]))
       /\ gsent[p] = 0
       /\ grequest[p] = NoRequest
  ELSE /\ gkind[p] \in { "chatNotFound", "lookupFailed", "reply", "noText", "threw" }
       /\ (gkind[p] = "chatNotFound") = ~chats[gargs[p].chatId].exists
       /\ gkind[p] \in { "reply", "noText", "threw" } =>
            /\ gsent[p] = 1
            /\ grequest[p].provider = gprovider[p]
            /\ grequest[p].model = OrElse(gargs[p].model, CLAUDE_MODEL)
       /\ gkind[p] \in { "noText", "threw" } =>
            gresult[p] = Returned(<< "**Error from ", gprovider[p], ":**", " " >>
                                     \o (IF gerror[p].isError THEN gerror[p].message
                                         ELSE << "Unknown error" >>))
       /\ gkind[p] = "reply" => gresult[p] \in { Returned(REPLY_TEXT), Returned(<< >>) }

\* C11: what an ended invocation returned, persisted and sent follows from
\* the credential of the selected provider alone: with it missing the setup
\* instructions and no request, with it present the provider's outcome,
\* whichever of the other two credentials are configured.
C11_OnlySelectedCredential ==
  \A p \in Procs :
    (gpc[p] = "done" /\ gprovider[p] \in Providers) =>
       /\ OutcomeFromOwnCredential(p)
       /\ ~gresult[p].raised =>
            gpersists[p] = << [ chatId |-> gargs[p].chatId, content |-> gresult[p].value ] >>

C11_Witness ==
  /\ gpc["p1"] = "done"
  /\ gprovider["p1"] = "openai"
  /\ Truthy(env["OPENAI_API_KEY"])
  /\ ~Truthy(env["ANTHROPIC_API_KEY"])
  /\ Truthy(env["GOOGLE_AI_API_KEY"])
  /\ gkind["p1"] = "reply"
  /\ gresult["p1"] = Returned(REPLY_TEXT)
  /\ gprev["p1"].provider = "anthropic"
  /\ gprev["p1"].kind = "notConfigured"

\* ---- link scraping

\* The texts a forwarded message holds, in order.
TextsIn(f) ==
  IF f.content.isString THEN << f.content.text >>
  ELSE LET IsText(b) == b.type = "text"
           texts == SelectSeq(f.content.blocks, IsText)
       IN [ k \in 1..Len(texts) |-> texts[k].text ]

\* Attachment i of the call in slot p is a link still to be scraped whose
\* scrape gave nothing: no Firecrawl key, a throw, no success, no markdown.
ScrapeGaveNothing(p, i) ==
  LET a == gargs[p].attachments[i] IN
  /\ gpc[p] \in { "provider", "persist", "return", "done" }
  /\ i \in 1..Len(gscrape[p])
  /\ a.type = "link" /\ Truthy(a.url) /\ ~Truthy(a.scrapedContent)
  /\ \/ ~Truthy(env["FIRECRAWL_API_KEY"])
     \/ gscrape[p][i] \in { "threw", "unsuccessful", "noMarkdown" }

\* C12: a link whose scrape gave nothing stays as the caller passed it; the
\* request still goes to the provider (unless an image lookup threw), its
\* new user message holding the link's URL as a text and no scraped content;
\* and the invocation returns the provider's reply or the provider's error,
\* not an error of the scrape.
C12_ScrapeFailureSilent ==
  \A p \in Procs :
    \A i \in 1..Len(gargs[p].attachments) :
      ScrapeGaveNothing(p, i) =>
        /\ gatts[p][i] = gargs[p].attachments[i]
        /\ gkind[p] # "lookupFailed" =>
             LET fwd == Forwarded(p)
                 texts == TextsIn(fwd[Len(fwd)])
             IN /\ gsent[p] = 1
                /\ \E k \in 1..Len(texts) : texts[k] = gargs[p].attachments[i].url
                /\ \A k \in 1..Len(texts) : ~Includes(texts[k], << "\n\nContent from " >>)
        /\ (gpc[p] = "done" /\ gkind[p] # "lookupFailed") =>
             /\ ~gresult[p].raised
             /\ gkind[p] \in { "reply", "noText", "threw" }
             /\ gkind[p] = "reply" => gresult[p].value \in { REPLY_TEXT, << >> }
             /\ gkind[p] # "reply" =>
                  gresult[p].value = << "**Error from ", gprovider[p], ":**", " " >>
                                        \o ErrorMessageOf(gerror[p])

C12_Witness ==
  /\ ScrapeGaveNothing("p1", 1)
  /\ gscrape["p1"][1] = "threw"
  /\ gpc["p1"] = "done"
  /\ gkind["p1"] = "reply"
  /\ gprovider["p1"] = "google"
  /\ gresult["p1"] = Returned(REPLY_TEXT)
  /\ TextsIn(grequest["p1"].messages[Len(grequest["p1"].messages)])
       = << << "Tighten this paragraph" >>, URL_A >>

\* ---- images the storage layer cannot resolve

\* The storage layer gives no URL for the image: none exists, or the lookup
\* fails.
Unresolved(a) ==
  /\ a.type = "image"
  /\ Truthy(a.storageId)
  /\ (GetStorageUrl(a.storageId).threw \/ ~Truthy(GetStorageUrl(a.storageId).url))

\* Stored message m has an image the storage layer cannot resolve.
HasUnresolvedImage(m) ==
  m.role = "user" /\ \E k \in 1..Len(m.attachments) : Unresolved(m.attachments[k])

\* The forwarded message f holds no image.
NoImageIn(f) ==
  f.content.isString \/ \A k \in 1..Len(f.content.blocks) : f.content.blocks[k].type = "text"

\* The invocation in slot p read a chat whose recent history has an image
\* the storage layer cannot resolve, and went on without it: the request was
\* sent, that message without the image and with its text.
WentOnWithoutImage(p) ==
  LET src == LastTwenty(gchat[p].messages)
      fwd == Forwarded(p)
  IN /\ gsent[p] = 1
     /\ Len(fwd) = Len(src) + 1
     /\ \A j \in 1..Len(src) :
          HasUnresolvedImage(src[j]) => (NoImageIn(fwd[j]) /\ Carries(gprovider[p], fwd[j], src[j]))

\* The invocation in slot p has ended after reading a chat whose history has
\* an unresolved image with a storage id of the set bad.
EndedWithImage(p, bad) ==
  /\ gpc[p] = "done"
  /\ gchat[p].exists
  /\ \E j \in 1..Len(gchat[p].messages) :
       /\ gchat[p].messages[j].role = "user"
       /\ \E k \in 1..Len(gchat[p].messages[j].attachments) :
            /\ Unresolved(gchat[p].messages[j].attachments[k])
            /\ gchat[p].messages[j].attachments[k].storageId \in bad

\* C13 as stated: an invocation whose chat history has an image the storage
\* layer cannot resolve (no URL, or a failing lookup) leaves the image out,
\* keeps the rest of the message, sends the request and returns a message.
C13_UnresolvedImageAbsent ==
  \A p \in Procs :
    EndedWithImage(p, { IMG_GONE, IMG_ERR }) => (~gresult[p].raised /\ WentOnWithoutImage(p))

\* The part of C13 the code keeps: an image for which the lookup yields no
\* URL is left out and the invocation goes on.
C13_NoUrlImageAbsent ==
  \A p \in Procs :
    EndedWithImage(p, { IMG_GONE }) => (~gresult[p].raised /\ WentOnWithoutImage(p))

\* ---- image blocks per provider

\* The image URLs forwarded message f holds, in order.
ImageUrlsIn(f) ==
  IF f.content.isString THEN << >>
  ELSE LET IsImage(b) == b.type \in { "image", "image_url" }
           images == SelectSeq(f.content.blocks, IsImage)
       IN [ i \in 1..Len(images) |-> images[i].url ]

\* The URLs of the images of a user turn that storage resolves, in order.
ResolvedImageUrls(role, attachments) ==
  LET IsResolved(a) == a.type = "image" /\ Truthy(a.storageId) /\ ~Unresolved(a)
      images == SelectSeq(attachments, IsResolved)
  IN IF role # "user" THEN << >>
     ELSE [ i \in 1..Len(images) |-> << "https://files.convex.cloud/" >> \o images[i].storageId ]

\* C14: from the same list of formatted messages, the request sent to Gemini
\* has text parts only, while the request sent to Anthropic or OpenAI carries,
\* message by message and in order, the URL of every resolved image of the
\* user messages, the new one included.
C14_ImagesPerProvider ==
  \A p \in Procs :
    gsent[p] = 1 =>
      LET fwd == Forwarded(p)
          src == LastTwenty(gchat[p].messages)
      IN IF gprovider[p] = "google"
         THEN \A j \in 1..Len(fwd) : NoImageIn(fwd[j])
         ELSE /\ Len(fwd) = Len(src) + 1
              /\ \A j \in 1..Len(src) :
                   ImageUrlsIn(fwd[j]) = ResolvedImageUrls(src[j].role, src[j].attachments)
              /\ ImageUrlsIn(fwd[Len(fwd)]) = ResolvedImageUrls("user", gatts[p])

\* OpenAI has been sent a request with an image of the history and the image
\* of the new message.
C14_Witness ==
  /\ gsent["p1"] = 1
  /\ gprovider["p1"] = "openai"
  /\ gargs["p1"].attachments = << ImageAttachment(IMG_OK) >>
  /\ \E j \in 2..(Len(grequest["p1"].messages) - 1) :
       ImageUrlsIn(grequest["p1"].messages[j]) = << << "https://files.convex.cloud/" >> \o IMG_OK >>
  /\ ImageUrlsIn(grequest["p1"].messages[Len(grequest["p1"].messages)])
       = << << "https://files.convex.cloud/" >> \o IMG_OK >>

\* ---- the message of a failed image generation

\* What made the image API throw e: its quota or rate limit, its safety
\* filter, or anything else.
FailureClass(e) ==
  IF e \in { Thrown(TRUE, ERR_QUOTA), Thrown(TRUE, ERR_RATE) } THEN "rateLimit"
  ELSE IF e \in { Thrown(TRUE, ERR_SAFETY), Thrown(TRUE, ERR_BLOCKED) } THEN "safety"
  ELSE "other"

\* The message the caller is to get for a failure of each class.
MessageOfClass(e) ==
  IF FailureClass(e) = "rateLimit" THEN RATE_LIMIT_MESSAGE
  ELSE IF FailureClass(e) = "safety" THEN BLOCKED_MESSAGE
  ELSE << "**Image generation failed:** " >> \o ErrorMessageOf(e)

\* C15: a failure inside generateImage is reported with the message of its
\* own class: Rate limit exceeded for a rate-limit failure, Image generation
\* blocked for a safety-filter failure, Image generation failed: and the
\* error text for any other.
C15_FailureMessageOfItsClass ==
  ipc = "done" /\ ierror # NoError =>
    /\ iresult.raised = FALSE
    /\ iresult.success = FALSE
    /\ iresult.error = MessageOfClass(ierror)

\* ---- the system prompt sent

\* A configured text that is there: defined and not empty.
IsSet(v) == v # Undefined /\ v # << >>

\* A configured part with something other than white space in it.
NonBlankPart(name) ==
  IsSet(env[name]) /\ \E i \in 1..Len(env[name]) : env[name][i] \notin { " ", "\n", "\t", "\r" }

\* The three parts in the order style, community, rules, the blank ones left
\* out, a rule between neighbours.
PartsInOrder ==
  LET rule == << "\n\n---\n\n" >>
      s == NonBlankPart("CLAUDE_PROMPT_STYLE")
      c == NonBlankPart("CLAUDE_PROMPT_COMMUNITY")
      r == NonBlankPart("CLAUDE_PROMPT_RULES")
  IN (IF s THEN env["CLAUDE_PROMPT_STYLE"] ELSE << >>)
       \o (IF s /\ (c \/ r) THEN rule ELSE << >>)
       \o (IF c THEN env["CLAUDE_PROMPT_COMMUNITY"] ELSE << >>)
       \o (IF c /\ r THEN rule ELSE << >>)
       \o (IF r THEN env["CLAUDE_PROMPT_RULES"] ELSE << >>)

\* The prompt before the page context: the parts, else the whole prompt,
\* else the default.
BasePromptExpected ==
  IF \E n \in { "CLAUDE_PROMPT_STYLE", "CLAUDE_PROMPT_COMMUNITY", "CLAUDE_PROMPT_RULES" } :
       NonBlankPart(n)
  THEN PartsInOrder
  ELSE IF IsSet(env["CLAUDE_SYSTEM_PROMPT"]) THEN env["CLAUDE_SYSTEM_PROMPT"]
  ELSE DEFAULT_SYSTEM_PROMPT

\* The page context of the call of slot p: the argument's, else the chat's,
\* else none.
PageContextExpected(p) ==
  IF IsSet(gargs[p].pageContext) THEN gargs[p].pageContext
  ELSE IF IsSet(gchat[p].pageContext) THEN gchat[p].pageContext
  ELSE << >>

\* The system prompt of the request sent: OpenAI's is its first message.
SystemSent(p) ==
  IF gprovider[p] = "openai" THEN grequest[p].messages[1].content.text ELSE grequest[p].system

\* C16: the system prompt sent is the non-blank ones of the three parts
\* joined in the order style, community, rules when there is one, else the
\* whole prompt when set, else the default; the page context follows it when
\* there is one, the argument's before the chat's.
C16_SystemPromptBuilt ==
  \A p \in Procs :
    gsent[p] = 1 =>
      /\ (gprovider[p] = "openai" => grequest[p].messages[1].role = "system")
      /\ SystemSent(p) =
           IF PageContextExpected(p) = << >> THEN BasePromptExpected
           ELSE BasePromptExpected \o PAGE_CONTEXT_INTRO \o PageContextExpected(p)

\* Style is blank, community, rules and the whole prompt are set, the call
\* and the chat both have a page context: the prompt sent is community, rules
\* and the page of the call.
C16_Witness ==
  /\ gsent["p1"] = 1
  /\ env["CLAUDE_PROMPT_STYLE"] = BLANK
  /\ env["CLAUDE_SYSTEM_PROMPT"] = PROMPT_WHOLE
  /\ gchat["p1"].pageContext = PAGE_OF_CHAT
  /\ SystemSent("p1") = PROMPT_COMMUNITY \o << "\n\n---\n\n" >> \o PROMPT_RULES
                          \o PAGE_CONTEXT_INTRO \o PAGE_OF_CALL

\* ---- DiffCodeBlock

\* C17: a mounted DiffCodeBlock renders the diff component with the patch
\* text as it is, whatever its shape; the view mode is unified before the
\* first click of the view toggle and changes between unified and split with
\* each click; the theme given to the diff library is dark under the dark
\* theme and light under light, tan and cloud.
C17_DiffRendering ==
  dpc = "mounted" =>
    /\ DiffRender.component = "PatchDiff"
    /\ DiffRender.patch = dcode
    /\ DiffRender.diffStyle = (IF dviewClicks % 2 = 0 THEN "unified" ELSE "split")
    /\ (theme = "dark" => DiffRender.themeType = "dark")
    /\ (theme \in { "light", "tan", "cloud" } => DiffRender.themeType = "light")
    /\ theme \in { "dark", "light", "tan", "cloud" }

\* A block of prose, not a diff, shown split under the cloud theme after
\* three clicks of the view toggle.
C17_Witness ==
  /\ dpc = "mounted"
  /\ dcode = << "not a diff at all" >>
  /\ dviewClicks = 3
  /\ theme = "cloud"
  /\ DiffRender.diffStyle = "split"
  /\ DiffRender.themeType = "light"

\* C20: for ACK_MS after copied was last set by a successful copy, the
\* acknowledgement is shown, a second copy made while it was shown included.
C20_AcknowledgedTwoSeconds ==
  dlastAck >= 0 /\ now < dlastAck + ACK_MS => copied = TRUE

\* ---- the scrapes of one call

\* Scrape i of slot p was started: it is in flight or has ended.
ScrapeStarted(p, i) == gscrape[p][i] \in { "pending", "threw", "unsuccessful", "noMarkdown", "scraped" }

\* Attachment a of the call is a link with a URL and no scraped content.
UnscrapedLink(a) ==
  /\ a.type = "link"
  /\ a.url # Undefined /\ a.url # << >>
  /\ a.scrapedContent \in { Undefined, << >> }

\* C18: in a call that has its credential and its chat, a scrape is started
\* for an attachment only when it is a link with a URL and no scraped
\* content, and with the Firecrawl key for each of these; the scrapes started
\* are in flight together from the start; the provider is invoked after all of
\* them have ended, never twice, and once in every call that goes on to an
\* outcome.
C18_ScrapesThenProvider ==
  \A p \in Procs :
    gpc[p] \in { "scrape", "provider", "persist", "return", "done" }
      /\ gkind[p] \notin { "notConfigured", "chatNotFound" } =>
        LET atts == gargs[p].attachments
            started == { i \in 1..Len(atts) : ScrapeStarted(p, i) }
        IN /\ Len(gscrape[p]) = Len(atts)
           /\ \A i \in started : UnscrapedLink(atts[i])
           /\ (Truthy(env["FIRECRAWL_API_KEY"]) =>
                 \A i \in 1..Len(atts) : UnscrapedLink(atts[i]) => i \in started)
           /\ gscrapes[p] = Cardinality(started)
           /\ gsent[p] <= 1
           /\ (gsent[p] = 1 => \A i \in started : gscrape[p][i] # "pending")
           /\ (gpc[p] \in { "provider", "persist", "return" } => gsent[p] = 1)
           /\ (gpc[p] = "done" /\ gkind[p] # "lookupFailed" => gsent[p] = 1)

\* Of two scrapes started around an image and a scraped link, the later one
\* has ended while the earlier one is in flight, and no request has gone to
\* the provider.
C18_Witness ==
  /\ gpc["p1"] = "scrape"
  /\ Len(gscrape["p1"]) = 4
  /\ gscrape["p1"][1] = "pending"
  /\ gscrape["p1"][2] = "skip"
  /\ gscrape["p1"][3] = "skip"
  /\ gscrape["p1"][4] = "scraped"
  /\ gsent["p1"] = 0

\* ---- persisting the assistant message

\* The invocation in slot p knows what it will say: the not-configured
\* message, or the outcome of the one provider call it made.
OutcomeKnown(p) ==
  \/ gkind[p] = "notConfigured" /\ gsent[p] = 0
  \/ gkind[p] \in { "reply", "noText", "threw" } /\ gsent[p] = 1

\* C19: an invocation that has returned ran the addAssistantMessage mutation
\* once during that invocation, on its chat, with the string it returned; the
\* mutation runs only after the outcome is known and before the return.
C19_PersistedOnceBeforeReturn ==
  \A p \in Procs :
    /\ Len(gpersists[p]) <= 1
    /\ (Len(gpersists[p]) = 1 =>
          /\ OutcomeKnown(p)
          /\ gpc[p] \in { "return", "done" }
          /\ gpersists[p][1] = [ chatId |-> gargs[p].chatId, content |-> gassistant[p] ])
    /\ (gpc[p] = "return" => Len(gpersists[p]) = 1 /\ gresult[p] = NoResult)
    /\ (gpc[p] = "done" /\ ~gresult[p].raised =>
          /\ Len(gpersists[p]) = 1
          /\ gresult[p].value = gpersists[p][1].content)

\* The second invocation in a row has returned the provider's reply after
\* persisting it, the first one having returned too.
C19_Witness ==
  /\ gpc["p1"] = "done"
  /\ gcalls = 2
  /\ ~gprev["p1"].result.raised
  /\ gkind["p1"] = "reply"
  /\ gresult["p1"] = Returned(REPLY_TEXT)
  /\ gpersists["p1"] = << [ chatId |-> gargs["p1"].chatId, content |-> REPLY_TEXT ] >>

\* ---- blobs and metadata records of generateImage

\* The blob with storage id id has a metadata record that references it.
HasRecord(id) == \E k \in 1..Len(imageRecords) : imageRecords[k].storageId = id

\* C21: at the return of an invocation of generateImage, the invocation has
\* written a blob exactly when its result has success = true; a success =
\* true result comes with the blob and one metadata record that references
\* it, and a success = false result leaves no blob without a metadata
\* record.
C21_BlobIffSuccess ==
  ipc = "done" =>
    /\ (istores >= 1) = iresult.success
    /\ (iresult.success =>
          /\ istores = 1
          /\ isaves = 1
          /\ HasRecord(iresult.storageId))
    /\ (~iresult.success => \A b \in 1..Len(blobs) : HasRecord(blobs[b].id))

\* A success = true result is returned only after the blob was stored and
\* one metadata record referencing it was written, the blob first: no record
\* is written by an invocation that has stored no blob.
C21_SuccessAfterBothWrites ==
  /\ isaves <= istores
  /\ istores <= 1
  /\ (ipc = "done" /\ iresult.success =>
        /\ istores = 1
        /\ isaves = 1
        /\ \E b \in 1..Len(blobs) : blobs[b].id = iresult.storageId
        /\ HasRecord(iresult.storageId))

\* ---- two invocations on the same chat

\* Neither slot has been used for a second invocation.
FirstUse == \A p \in Procs : gprev[p] = NoPrev

\* The messages the chat has gained since the two calls began.
Gained ==
  SubSeq(chats["chat-1"].messages, Len(SharedHistory) + 1, Len(chats["chat-1"].messages))

\* C22: with atomic appends and the two invocations interleaved in any way,
\* the chat holds what it held before and one assistant message for every
\* append made, none lost; when both invocations have returned it has gained
\* two assistant messages, the two strings returned, and each invocation
\* returned the one it appended.
C22_NoAppendLost ==
  FirstUse =>
    /\ Len(chats["chat-1"].messages)
         = Len(SharedHistory) + Len(gpersists["p1"]) + Len(gpersists["p2"])
    /\ SubSeq(chats["chat-1"].messages, 1, Len(SharedHistory)) = SharedHistory
    /\ \A k \in 1..Len(Gained) : Gained[k].role = "assistant"
    /\ (\A p \in Procs : gpc[p] = "done" /\ ~gresult[p].raised) =>
          /\ Len(Gained) = 2
          /\ \A p \in Procs :
               /\ Len(gpersists[p]) = 1
               /\ gpersists[p][1] = [ chatId |-> "chat-1", content |-> gresult[p].value ]
          /\ \/ << Gained[1].content, Gained[2].content >>
                  = << gresult["p1"].value, gresult["p2"].value >>
             \/ << Gained[1].content, Gained[2].content >>
                  = << gresult["p2"].value, gresult["p1"].value >>

\* Both invocations read the chat before either appended, the second
\* appended first, and both have returned: the error message of the one and
\* the reply of the other are both in the chat.
C22_Witness ==
  /\ gpc["p1"] = "done"
  /\ gpc["p2"] = "done"
  /\ FirstUse
  /\ gchat["p1"].messages = SharedHistory
  /\ gchat["p2"].messages = SharedHistory
  /\ gresult["p1"] = Returned(REPLY_TEXT)
  /\ gkind["p2"] = "threw"
  /\ Len(Gained) = 2
  /\ Gained[1].content = gresult["p2"].value
  /\ Gained[2].content = REPLY_TEXT

====
